---- MODULE Spec2Model ----
(***************************************************************************)
(* Model of the htslib plugins: the "cip:" en-/decryption backend          *)
(* (hfile_cip.c), the memory-mapped backend (hfile_mmap.c) and the iRODS   *)
(* backend (hfile_irods.c).                                                *)
(*                                                                         *)
(* The "cip:" backend:                                                     *)
(* One session at a time over one target.  Every backend entry point       *)
(* (hopen_cip, cip_read, cip_write, cip_seek, cip_close) is one action     *)
(* that runs the whole C function; the outcomes of the calls it makes into *)
(* htslib (hopen, hread, hwrite, hclose), libc (malloc) and the crypto     *)
(* library are inputs of the action.                                       *)
(***************************************************************************)
EXTENDS Integers, Sequences, FiniteSets, TLC

----------------------------------------------------------------------------
(* Bounds of the model *)

\* fp->bufsize is 8192 * BLOCKSIZE in the source; the model keeps BLOCKSIZE
\* and scales the number of blocks down so that requests larger than the
\* scratch buffer stay small.
BufBlocks == 1
\* number of distinct secrets the environment may hold
NumKeys == 1
\* number of distinct outputs of the random source
NumIVs == 2
\* number of distinct caller payloads of each length
NumSeeds == 2
\* read/write/seek calls issued on one handle
MaxOps == 2
\* bytes values are 0 .. ByteMax
ByteMax == 3
\* longest path named after a "cip:" prefix
MaxPath == 2
\* width in bits of size_t and off_t in the memory-mapped backend
OffBits == 3
\* hopen_irods calls made by one process
MaxOpens == 2

----------------------------------------------------------------------------
(* Program constants *)

BLOCKSIZE == 16
IVLen == 16
PBKDF2Iterations == 1024
salt == <<244, 34, 1, 0, 158, 223, 78, 21>>
bufsize == BufBlocks * BLOCKSIZE

NULL == 0
Keys == 1..NumKeys
Byte == 0..ByteMax

\* errno 0
NoError == "0"
\* errno after a library call that succeeded: the C library may leave any
\* value there, so no particular one can be relied on
Indeterminate == "?"

----------------------------------------------------------------------------
(* Helpers *)

Min(a, b) == IF a < b THEN a ELSE b

RECURSIVE SumSeq(_)
SumSeq(s) == IF s = <<>> THEN 0 ELSE Head(s) + SumSeq(Tail(s))

\* bitwise exclusive-or of two byte values
RECURSIVE Xor(_, _)
Xor(a, b) ==
    IF a = 0 /\ b = 0 THEN 0
    ELSE (((a % 2) + (b % 2)) % 2) + 2 * Xor(a \div 2, b \div 2)

Take(s, k) == SubSeq(s, 1, k)
Drop(s, k) == SubSeq(s, k + 1, Len(s))

----------------------------------------------------------------------------
(* The crypto library *)

\* PKCS5_PBKDF2_HMAC / CCKeyDerivationPBKDF: deterministic in its inputs.
PBKDF2(key, slt, iterations) ==
    (key * 31 + SumSeq(slt) + iterations) % 251

\* AES-128-CTR keystream byte at byte offset i (0-based) for a key and IV.
Keystream(secret, iv, i) ==
    (secret + 3 * iv[1] + iv[IVLen] + ((i * (i + 1)) \div 2) + (i \div 8))
        % (ByteMax + 1)

\* Counter mode: output = input xor keystream, the same for both directions.
CtrTransform(ctx, in) ==
    [j \in 1..Len(in) |-> Xor(in[j], Keystream(ctx.key, ctx.iv, ctx.pos + j - 1))]

\* ssl_errno() always yields EINVAL; cc_errno() maps a CCStatus.
cc_errno(status) ==
    CASE status = "kCCSuccess"           -> NoError
      [] status = "kCCParamError"        -> "EINVAL"
      [] status = "kCCBufferTooSmall"    -> "ENOSPC"
      [] status = "kCCMemoryFailure"     -> "ENOMEM"
      [] status = "kCCAlignmentError"    -> "ERANGE"
      [] status = "kCCDecodeError"       -> "ERANGE"
      [] status = "kCCUnimplemented"     -> "ENOSYS"
      [] status = "kCCOverflow"          -> "EOVERFLOW"
      [] status = "kCCRNGFailure"        -> "ERANGE"
      [] status = "kCCUnspecifiedError"  -> "ERANGE"
      [] status = "kCCCallSequenceError" -> "EBADF"
      [] OTHER                           -> "EINVAL"

ssl_errno(status) == "EINVAL"

\* A crypto call fails with one of these statuses ("openssl" stands for a
\* failure in the OpenSSL build, the others for the CommonCrypto build).
CryptoFailures == {"openssl", "kCCMemoryFailure"}
OK == "ok"

crypto_errno(status) ==
    IF status = "openssl" THEN ssl_errno(status) ELSE cc_errno(status)

----------------------------------------------------------------------------
(* State *)

VARIABLES
    HTS_CIP_KEY,  \* the environment's secret: NULL or a key
    disk,         \* bytes of the target the underlying stream is opened on
    fp,           \* the hFILE_cip object
    rawfp,        \* the underlying hFILE (fp->rawfp)
    errno,        \* the C errno
    ret,          \* value returned by the last call (hopen_cip: 1 handle, 0 NULL)
    calls,        \* calls made into htslib/libc/crypto since the last hopen_cip began
    hist,         \* what the caller has done on the current handle
    prov,         \* what is known about the origin of disk
    remote,       \* the last cip_isremote call
    mmap,         \* the memory-mapped backend: its file, handle and last call
    irods         \* the iRODS backend: its connection, server and last call

vars == <<HTS_CIP_KEY, disk, fp, rawfp, errno, ret, calls, hist, prov,
          remote, mmap, irods>>

CallNames == {"hfile_init", "hfile_destroy", "hopen", "hclose",
              "hclose_abruptly", "hread", "hwrite", "malloc", "free",
              "gen_random", "PBKDF2", "cipher_init", "cipher_update",
              "cipher_final", "cipher_release"}

NoCalls == [c \in CallNames |-> 0]

\* st: "none", "init" or "released"; pos: bytes transformed so far;
\* fin: the engine's state and position, and the underlying stream's state,
\* when cipher_final was last called on it
NoFin == [st |-> "none", pos |-> 0, raw |-> "NULL"]
NoCtx == [st |-> "none", key |-> 0, iv |-> <<>>, pos |-> 0, enc |-> FALSE,
          fin |-> NoFin]

\* live: "none" (no handle), "open", "closed", "crashed"
\* alloc: the hFILE_cip storage exists (hfile_init .. hfile_destroy)
\* buffer: "NULL", "alloc" or "freed"
NoFp == [live |-> "none", alloc |-> FALSE, is_write |-> FALSE,
         buffer |-> "NULL", bufsize |-> 0, ctx |-> NoCtx]

\* st: "NULL", "open" or "closed"; pos: read offset into disk;
\* out: bytes accepted by hwrite; flushes: flush attempts made on it;
\* name: the name hopen was called with
NoRaw == [st |-> "NULL", mode |-> "r", pos |-> 0, out |-> <<>>, flushes |-> 0,
          name |-> <<>>]

\* op: the last call ("none", "open", "read", "write", "seek", "close")
\* ops, reads, writes: read/write/seek calls made on the handle
\* filename, mode, fault, status, iv: the inputs of the hopen_cip call
\* fail: the step of hopen_cip that jumped to the error label
\* req: the byte count asked of the last read or write
\* lfault: the fault injected into the last read or write
\* plain: the bytes of the write calls that succeeded, in order
\* got: the bytes the read calls returned, in order
\* eof: a read call returned 0
\* clean: every read and write so far succeeded and matched the direction
\* failed: some read or write so far returned -1
\* final, release, closeFail: the outcomes of the three stages of cip_close
NoHist == [op |-> "none", ops |-> 0, filename |-> <<>>, mode |-> "r",
           fault |-> "none",
           status |-> OK, iv |-> <<>>, fail |-> "none", req |-> 0,
           plain |-> <<>>, got |-> <<>>, eof |-> FALSE,
           clean |-> TRUE, failed |-> FALSE, reads |-> 0, writes |-> 0,
           lfault |-> [at |-> 0, kind |-> "none", status |-> OK, acc |-> 0],
           final |-> OK, release |-> OK, closeFail |-> FALSE]

NoProv == [ok |-> FALSE, key |-> 0, plain |-> <<>>]

\* called: cip_isremote has been called; filename: its argument;
\* target: what it passed to hisremote; ret: what it returned
NoRemote == [called |-> FALSE, filename |-> <<>>, target |-> <<>>, ret |-> 0]

\* The part of the state the C functions work on, threaded through them.
World == [fp |-> fp, rawfp |-> rawfp, disk |-> disk, errno |-> errno,
          calls |-> calls]

Count(w, name) == [w EXCEPT !.calls[name] = @ + 1]

\* A library call that succeeded.
Succeeded(w, name) == [Count(w, name) EXCEPT !.errno = Indeterminate]

----------------------------------------------------------------------------
(* htslib and libc, as hfile_cip.c uses them *)

Modes == {"r", "w", "a", "r+", "w+"}

\* hfile_oflags(mode) & O_ACCMODE
hfile_accmode(mode) ==
    CASE mode = "r" -> "O_RDONLY"
      [] mode \in {"w", "a"} -> "O_WRONLY"
      [] OTHER -> "O_RDWR"

\* hopen(): "w" truncates the target; the stream starts at offset 0.
hopen(w, fname, mode, fail) ==
    LET w1 == Count(w, "hopen")
    IN IF fail
       THEN [w1 EXCEPT !.errno = "ENOENT", !.rawfp.name = fname]
       ELSE [Succeeded(w, "hopen") EXCEPT
                !.rawfp = [NoRaw EXCEPT !.st = "open", !.mode = mode,
                                        !.name = fname],
                !.disk = IF mode \in {"w", "w+"} THEN <<>> ELSE @]

\* hread(): the full request except as limited by EOF; -1 on error.
\* Reading a stream opened write-only is an error.
hread(w, nbytes, fail) ==
    LET w1 == Count(w, "hread")
        avail == Len(w.disk) - w.rawfp.pos
        k == Min(nbytes, avail)
    IN IF hfile_accmode(w.rawfp.mode) = "O_WRONLY"
       THEN [w |-> [w1 EXCEPT !.errno = "EBADF"], n |-> -1, data |-> <<>>]
       ELSE IF fail
       THEN [w |-> [w1 EXCEPT !.errno = "EIO"], n |-> -1, data |-> <<>>]
       ELSE [w |-> [Succeeded(w, "hread") EXCEPT !.rawfp.pos = @ + k], n |-> k,
             data |-> SubSeq(w.disk, w.rawfp.pos + 1, w.rawfp.pos + k)]

\* hwrite() that stores the bytes at the start of the stream.
hwrite_rewind(w, data, fail, acc) ==
    LET w1 == Count(w, "hwrite")
    IN IF fail
       THEN [w |-> [w1 EXCEPT !.errno = "EIO"], n |-> -1]
       ELSE [w |-> [Succeeded(w, "hwrite") EXCEPT
                       !.rawfp.out =
                           data \o Drop(@, Min(Len(@), Len(data)))],
             n |-> Len(data)]

\* hwrite(): all of the request, or negative after accepting acc < n bytes.
hwrite(w, data, fail, acc) ==
    LET w1 == Count(w, "hwrite")
    IN IF fail
       THEN [w |-> [w1 EXCEPT !.errno = "EIO",
                              !.rawfp.out =
                                  @ \o Take(data, Min(acc, Len(data) - 1))],
             n |-> -1]
       ELSE [w |-> [Succeeded(w, "hwrite") EXCEPT !.rawfp.out = @ \o data],
             n |-> Len(data)]

\* What the target holds after a successful hclose: a stream opened for
\* writing leaves the bytes it accepted after what was there at open.
Flushed(w) ==
    IF hfile_accmode(w.rawfp.mode) = "O_RDONLY" THEN w.disk
    ELSE w.disk \o w.rawfp.out

\* hclose(): flush, close, destroy; negative if any of it failed, and then
\* the buffered bytes are taken as lost.
hclose(w, fail) ==
    LET w1 == Count(w, "hclose")
    IN IF fail
       THEN [w |-> [w1 EXCEPT !.errno = "EIO", !.rawfp.st = "closed",
                              !.rawfp.flushes = @ + 1],
             n |-> -1]
       ELSE [w |-> [Succeeded(w, "hclose") EXCEPT
                       !.rawfp.st = "closed", !.rawfp.flushes = @ + 1,
                       !.disk = Flushed(w)],
             n |-> 0]

\* hclose_abruptly(): close without flushing; may leave its own errno.
hclose_abruptly(w, clobber) ==
    LET w1 == Count(w, "hclose_abruptly")
    IN [w1 EXCEPT !.rawfp.st = "closed",
                  !.errno = IF clobber THEN "EINTR" ELSE @]

hfile_init(w, fail) ==
    LET w1 == Count(w, "hfile_init")
    IN IF fail THEN [w1 EXCEPT !.errno = "ENOMEM"]
       ELSE [Succeeded(w, "hfile_init") EXCEPT
                !.fp = [NoFp EXCEPT !.alloc = TRUE]]

hfile_destroy(w) ==
    [Count(w, "hfile_destroy") EXCEPT !.fp.alloc = FALSE, !.fp.live = "none"]

malloc(w, fail) ==
    LET w1 == Count(w, "malloc")
    IN IF fail THEN [w1 EXCEPT !.errno = "ENOMEM", !.fp.buffer = "NULL"]
       ELSE [Succeeded(w, "malloc") EXCEPT !.fp.buffer = "alloc"]

\* free(NULL) is a no-op
free(w) ==
    [Count(w, "free") EXCEPT
        !.fp.buffer = IF w.fp.buffer = "alloc" THEN "freed" ELSE @]

----------------------------------------------------------------------------
(* The crypto wrappers of hfile_cip.c *)

gen_random(w, status, iv) ==
    LET w1 == Count(w, "gen_random")
    IN IF status # OK
       THEN [w |-> [w1 EXCEPT !.errno = crypto_errno(status)], n |-> -1,
             iv |-> <<>>]
       ELSE [w |-> Succeeded(w, "gen_random"), n |-> 0, iv |-> iv]

\* cipher_update on an engine that restarts its keystream at every call.
cipher_update_restart(w, in, status) ==
    LET w1 == Count(w, "cipher_update")
    IN IF status # OK
       THEN [w |-> [w1 EXCEPT !.errno = crypto_errno(status)], n |-> -1,
             out |-> <<>>]
       ELSE [w |-> [Succeeded(w, "cipher_update") EXCEPT
                       !.fp.ctx.pos = @ + Len(in)],
             n |-> Len(in),
             out |-> CtrTransform([w.fp.ctx EXCEPT !.pos = 0], in)]

\* EVP_CipherUpdate / CCCryptorUpdate on fp's engine: in counter mode the
\* output is as long as the input and the engine advances by that much.
cipher_update(w, in, status) ==
    LET w1 == Count(w, "cipher_update")
    IN IF status # OK
       THEN [w |-> [w1 EXCEPT !.errno = crypto_errno(status)], n |-> -1,
             out |-> <<>>]
       ELSE [w |-> [Succeeded(w, "cipher_update") EXCEPT
                       !.fp.ctx.pos = @ + Len(in)],
             n |-> Len(in),
             out |-> CtrTransform(w.fp.ctx, in)]

\* EVP_CipherFinal / CCCryptorFinal: counter mode holds nothing back.
cipher_final(w, status) ==
    LET fin == [st |-> w.fp.ctx.st, pos |-> w.fp.ctx.pos, raw |-> w.rawfp.st]
        w1 == [Count(w, "cipher_final") EXCEPT !.fp.ctx.fin = fin]
    IN IF status # OK
       THEN [w |-> [w1 EXCEPT !.errno = crypto_errno(status)], n |-> -1,
             out |-> <<>>]
       ELSE [w |-> [w1 EXCEPT !.errno = Indeterminate], n |-> 0,
             out |-> <<>>]

\* EVP_CIPHER_CTX_cleanup / CCCryptorRelease
cipher_release(w, status) ==
    [w |-> [(IF status = OK THEN Succeeded(w, "cipher_release")
             ELSE Count(w, "cipher_release")) EXCEPT
               !.fp.ctx.st = "released"],
     ok |-> (status = OK)]

----------------------------------------------------------------------------
(* Faults injected into one call of a backend function *)

\* at: the loop iteration (1-based) that fails, 0 for none
\* kind: which call of that iteration fails
\* status: the crypto status of a failing crypto call
\* acc: bytes a failing hwrite accepted before failing (at most; never the
\*      whole chunk)
NoFault == [at |-> 0, kind |-> "none", status |-> OK, acc |-> 0]

Iterations(nbytes) == (nbytes + bufsize - 1) \div bufsize

LoopFaults(nbytes, ioKind) ==
    {NoFault}
    \cup { [at |-> i, kind |-> ioKind, status |-> OK, acc |-> a] :
              i \in 1..Iterations(nbytes),
              a \in IF ioKind = "hwrite" THEN {nbytes - 1} ELSE {0} }
    \cup { [at |-> i, kind |-> "cipher_update", status |-> "openssl",
             acc |-> 0] : i \in 1..Iterations(nbytes) }

FaultAt(fault, iter, kind) == fault.at = iter /\ fault.kind = kind

StatusAt(fault, iter, kind) ==
    IF FaultAt(fault, iter, kind) THEN fault.status ELSE OK

----------------------------------------------------------------------------
(* cip_read, cip_write, cip_seek, cip_close *)

\* Size of the next chunk: (nbytes < fp->bufsize)? nbytes : fp->bufsize
ChunkLen(w, nbytes) == IF nbytes < w.fp.bufsize THEN nbytes ELSE w.fp.bufsize

\* cip_read with "buffer += nout" left out: every chunk is stored at the
\* start of the caller's buffer.
RECURSIVE ReadLoopOverwrite(_, _, _, _, _, _)
ReadLoopOverwrite(w, nbytes, total, out, fault, iter) ==
    IF nbytes <= 0
    THEN [w |-> w, ret |-> total, out |-> out, crashed |-> FALSE]
    ELSE
      LET n == IF nbytes < w.fp.bufsize THEN nbytes ELSE w.fp.bufsize
          r == hread(w, n, FaultAt(fault, iter, "hread"))
      IN IF r.n = 0
         THEN [w |-> r.w, ret |-> total, out |-> out, crashed |-> FALSE]
         ELSE IF r.n < 0
         THEN [w |-> r.w, ret |-> -1, out |-> out, crashed |-> FALSE]
         ELSE IF w.fp.buffer # "alloc"
         THEN [w |-> r.w, ret |-> -1, out |-> out, crashed |-> TRUE]
         ELSE
           LET u == cipher_update(r.w, r.data,
                                  StatusAt(fault, iter, "cipher_update"))
           IN IF u.n < 0
              THEN [w |-> u.w, ret |-> -1, out |-> out, crashed |-> FALSE]
              ELSE ReadLoopOverwrite(u.w, nbytes - u.n, total + u.n,
                                     u.out \o Drop(out, Min(Len(out), u.n)),
                                     fault, iter + 1)

\* cip_read taking a read of zero bytes from the stream as a failure.
RECURSIVE ReadLoopEofError(_, _, _, _, _, _)
ReadLoopEofError(w, nbytes, total, out, fault, iter) ==
    IF nbytes <= 0
    THEN [w |-> w, ret |-> total, out |-> out, crashed |-> FALSE]
    ELSE
      LET n == ChunkLen(w, nbytes)
          r == hread(w, n, FaultAt(fault, iter, "hread"))
      IN IF r.n = 0
         THEN [w |-> r.w, ret |-> -1, out |-> out, crashed |-> FALSE]
         ELSE IF r.n < 0
         THEN [w |-> r.w, ret |-> -1, out |-> out, crashed |-> FALSE]
         ELSE IF w.fp.buffer # "alloc"
         THEN [w |-> r.w, ret |-> -1, out |-> out, crashed |-> TRUE]
         ELSE
           LET u == cipher_update(r.w, r.data,
                                  StatusAt(fault, iter, "cipher_update"))
           IN IF u.n < 0
              THEN [w |-> u.w, ret |-> -1, out |-> out, crashed |-> FALSE]
              ELSE ReadLoopEofError(u.w, nbytes - u.n, total + u.n, out \o u.out,
                            fault, iter + 1)

\* cip_read returning the bytes produced so far when a later chunk fails.
RECURSIVE ReadLoopPartial(_, _, _, _, _, _)
ReadLoopPartial(w, nbytes, total, out, fault, iter) ==
    IF nbytes <= 0
    THEN [w |-> w, ret |-> total, out |-> out, crashed |-> FALSE]
    ELSE
      LET n == ChunkLen(w, nbytes)
          r == hread(w, n, FaultAt(fault, iter, "hread"))
      IN IF r.n = 0
         THEN [w |-> r.w, ret |-> total, out |-> out, crashed |-> FALSE]
         ELSE IF r.n < 0
         THEN [w |-> r.w, ret |-> IF total > 0 THEN total ELSE -1,
               out |-> out, crashed |-> FALSE]
         ELSE IF w.fp.buffer # "alloc"
         THEN [w |-> r.w, ret |-> -1, out |-> out, crashed |-> TRUE]
         ELSE
           LET u == cipher_update(r.w, r.data,
                                  StatusAt(fault, iter, "cipher_update"))
           IN IF u.n < 0
              THEN [w |-> u.w, ret |-> IF total > 0 THEN total ELSE -1,
                    out |-> out, crashed |-> FALSE]
              ELSE ReadLoopPartial(u.w, nbytes - u.n, total + u.n, out \o u.out,
                            fault, iter + 1)

\* The loop of cip_read.  out collects what was stored in the caller's
\* buffer.  hread copies into fp->buffer, so a NULL fp->buffer is
\* dereferenced as soon as the underlying stream delivers a byte.
RECURSIVE ReadLoop(_, _, _, _, _, _)
ReadLoop(w, nbytes, total, out, fault, iter) ==
    IF nbytes <= 0
    THEN [w |-> w, ret |-> total, out |-> out, crashed |-> FALSE]
    ELSE
      LET n == ChunkLen(w, nbytes)
          r == hread(w, n, FaultAt(fault, iter, "hread"))
      IN IF r.n = 0
         THEN [w |-> r.w, ret |-> total, out |-> out, crashed |-> FALSE]
         ELSE IF r.n < 0
         THEN [w |-> r.w, ret |-> -1, out |-> out, crashed |-> FALSE]
         ELSE IF w.fp.buffer # "alloc"
         THEN [w |-> r.w, ret |-> -1, out |-> out, crashed |-> TRUE]
         ELSE
           LET u == cipher_update(r.w, r.data,
                                  StatusAt(fault, iter, "cipher_update"))
           IN IF u.n < 0
              THEN [w |-> u.w, ret |-> -1, out |-> out, crashed |-> FALSE]
              ELSE ReadLoop(u.w, nbytes - u.n, total + u.n, out \o u.out,
                            fault, iter + 1)

\* cip_read refusing to run while errno holds an error code.
cip_read_body_latched(w, nbytes, fault) ==
    IF w.errno \notin {NoError, Indeterminate}
    THEN [w |-> w, ret |-> -1, out |-> <<>>, crashed |-> FALSE]
    ELSE ReadLoop(w, nbytes, 0, <<>>, fault, 1)

cip_read_body(w, nbytes, fault) == ReadLoop(w, nbytes, 0, <<>>, fault, 1)

\* cip_write with the result of hwrite ignored.
RECURSIVE WriteLoopUnchecked(_, _, _, _, _)
WriteLoopUnchecked(w, data, total, fault, iter) ==
    IF Len(data) <= 0
    THEN [w |-> w, ret |-> total, crashed |-> FALSE]
    ELSE
      LET n == IF Len(data) < w.fp.bufsize THEN Len(data) ELSE w.fp.bufsize
      IN IF w.fp.buffer # "alloc"
         THEN [w |-> w, ret |-> -1, crashed |-> TRUE]
         ELSE
           LET u == cipher_update(w, Take(data, n),
                                  StatusAt(fault, iter, "cipher_update"))
           IN IF u.n < 0
              THEN [w |-> u.w, ret |-> -1, crashed |-> FALSE]
              ELSE
                LET h == hwrite(u.w, Take(u.out, u.n),
                                FaultAt(fault, iter, "hwrite"), fault.acc)
                IN WriteLoopUnchecked(h.w, Drop(data, n), total + n, fault,
                                      iter + 1)

\* cip_write handing the rest of a chunk to the stream again when the
\* stream did not take all of it.
RECURSIVE WriteLoopRetry(_, _, _, _, _)
WriteLoopRetry(w, data, total, fault, iter) ==
    IF Len(data) <= 0
    THEN [w |-> w, ret |-> total, crashed |-> FALSE]
    ELSE
      LET n == ChunkLen(w, Len(data))
      IN IF w.fp.buffer # "alloc"
         THEN [w |-> w, ret |-> -1, crashed |-> TRUE]
         ELSE
           LET u == cipher_update(w, Take(data, n),
                                  StatusAt(fault, iter, "cipher_update"))
           IN IF u.n < 0
              THEN [w |-> u.w, ret |-> -1, crashed |-> FALSE]
              ELSE
                LET h == hwrite(u.w, Take(u.out, u.n),
                                FaultAt(fault, iter, "hwrite"), fault.acc)
                    done == Len(h.w.rawfp.out) - Len(u.w.rawfp.out)
                    again == IF h.n # u.n
                             THEN hwrite(h.w, Drop(Take(u.out, u.n), done),
                                         FALSE, 0).w
                             ELSE h.w
                IN WriteLoopRetry(again, Drop(data, n), total + n, fault,
                                  iter + 1)

\* The loop of cip_write.  cipher_update stores into fp->buffer, so a NULL
\* fp->buffer is dereferenced by the first chunk.
RECURSIVE WriteLoop(_, _, _, _, _)
WriteLoop(w, data, total, fault, iter) ==
    IF Len(data) <= 0
    THEN [w |-> w, ret |-> total, crashed |-> FALSE]
    ELSE
      LET n == ChunkLen(w, Len(data))
      IN IF w.fp.buffer # "alloc"
         THEN [w |-> w, ret |-> -1, crashed |-> TRUE]
         ELSE
           LET u == cipher_update(w, Take(data, n),
                                  StatusAt(fault, iter, "cipher_update"))
           IN IF u.n < 0
              THEN [w |-> u.w, ret |-> -1, crashed |-> FALSE]
              ELSE
                LET h == hwrite(u.w, Take(u.out, u.n),
                                FaultAt(fault, iter, "hwrite"), fault.acc)
                IN IF h.n # u.n
                   THEN [w |-> h.w, ret |-> -1, crashed |-> FALSE]
                   ELSE WriteLoop(h.w, Drop(data, n), total + n, fault,
                                  iter + 1)

cip_write_body(w, data, fault) == WriteLoop(w, data, 0, fault, 1)

\* cip_seek that rewinds the engine and reports success.
cip_seek_body_rewind(w) == [w |-> [w EXCEPT !.fp.ctx.pos = 0], ret |-> 0]

cip_seek_body(w) == [w |-> [w EXCEPT !.errno = "ESPIPE"], ret |-> -1]

\* Stage 1 of cip_close: finalize and flush, on a write session only.
\* Yields the world and the value of err after the stage.
close_final(w, err, finalStatus, flushFail) ==
    IF w.fp.is_write
    THEN LET f == cipher_final(w, finalStatus)
         IN IF f.n > 0
            THEN LET h == hwrite(f.w, f.out, flushFail, 0)
                 IN [w |-> h.w, err |-> IF h.n # f.n THEN h.w.errno ELSE err]
            ELSE IF f.n < 0
            THEN [w |-> f.w, err |-> f.w.errno]
            ELSE [w |-> f.w, err |-> err]
    ELSE [w |-> w, err |-> err]

\* Stage 2: release the engine.
close_release(w, err, releaseStatus) ==
    LET r == cipher_release(w, releaseStatus)
    IN [w |-> r.w, err |-> IF ~r.ok THEN crypto_errno(releaseStatus) ELSE err]

\* Stage 3 skipped once an earlier stage has failed.
close_raw_skipped(w, err, closeFail) ==
    IF err # NoError THEN [w |-> w, err |-> err]
    ELSE LET c == hclose(w, closeFail)
         IN [w |-> c.w, err |-> IF c.n < 0 THEN c.w.errno ELSE err]

\* Stage 3 keeping an error recorded earlier.
close_raw_first(w, err, closeFail) ==
    LET c == hclose(w, closeFail)
    IN [w |-> c.w,
        err |-> IF c.n < 0 /\ err = NoError THEN c.w.errno ELSE err]

\* Stage 3 setting err from its own outcome alone.
close_raw_masks(w, err, closeFail) ==
    LET c == hclose(w, closeFail)
    IN [w |-> c.w, err |-> IF c.n < 0 THEN c.w.errno ELSE NoError]

\* Stage 3: close the underlying stream.
close_raw(w, err, closeFail) ==
    LET c == hclose(w, closeFail)
    IN [w |-> c.w, err |-> IF c.n < 0 THEN c.w.errno ELSE err]

\* cip_close releasing the engine before it finalizes it.
cip_close_body_swapped(w, finalStatus, flushFail, releaseStatus, closeFail) ==
    LET s1 == close_release(w, NoError, releaseStatus)
        s2 == close_final(s1.w, s1.err, finalStatus, flushFail)
        s3 == close_raw(s2.w, s2.err, closeFail)
    IN IF s3.err # NoError
       THEN [w |-> [s3.w EXCEPT !.errno = s3.err], ret |-> -1]
       ELSE [w |-> s3.w, ret |-> 0]

cip_close_body(w, finalStatus, flushFail, releaseStatus, closeFail) ==
    LET s1 == close_final(w, NoError, finalStatus, flushFail)
        s2 == close_release(s1.w, s1.err, releaseStatus)
        s3 == close_raw(s2.w, s2.err, closeFail)
    IN IF s3.err # NoError
       THEN [w |-> [s3.w EXCEPT !.errno = s3.err], ret |-> -1]
       ELSE [w |-> s3.w, ret |-> 0]

----------------------------------------------------------------------------
(* strip_cip_scheme, cip_isremote *)

\* File names are sequences of characters.
CipLocalhost == <<"c", "i", "p", ":", "/", "/", "l", "o", "c", "a", "l", "h",
                  "o", "s", "t", "/">>
CipEmptyAuthority == <<"c", "i", "p", ":", "/", "/", "/">>
CipBare == <<"c", "i", "p", ":">>

\* strncmp(s, prefix, n) == 0, for a prefix of at least n characters
HasPrefix(s, prefix, n) == Len(s) >= n /\ Take(s, n) = Take(prefix, n)

\* strip_cip_scheme that also drops the slash after the authority.
strip_cip_scheme_noslash(filename) ==
    IF HasPrefix(filename, CipLocalhost, 16) THEN Drop(filename, 16)
    ELSE IF HasPrefix(filename, CipEmptyAuthority, 7) THEN Drop(filename, 7)
    ELSE IF HasPrefix(filename, CipBare, 4) THEN Drop(filename, 4)
    ELSE filename

strip_cip_scheme(filename) ==
    IF HasPrefix(filename, CipLocalhost, 16) THEN Drop(filename, 15)
    ELSE IF HasPrefix(filename, CipEmptyAuthority, 7) THEN Drop(filename, 6)
    ELSE IF HasPrefix(filename, CipBare, 4) THEN Drop(filename, 4)
    ELSE filename

\* hisremote(): the names of this model name no remote scheme.
hisremote(fname) == 0

cip_isremote_body(filename) ==
    [called |-> TRUE, filename |-> filename,
     target |-> strip_cip_scheme(filename),
     ret |-> hisremote(strip_cip_scheme(filename))]

----------------------------------------------------------------------------
(* hopen_cip *)

\* The error: label without "errno = save".
open_error_norestore(w, clobber, fail) ==
    LET w1 == IF w.fp.alloc
              THEN hfile_destroy(free(IF w.rawfp.st # "NULL"
                                      THEN hclose_abruptly(w, clobber)
                                      ELSE w))
              ELSE w
    IN [w |-> w1, ret |-> 0, fail |-> fail]

\* The error: label.  fail names the step that jumped here.
open_error(w, clobber, fail) ==
    LET save == w.errno
        w1 == IF w.fp.alloc
              THEN hfile_destroy(free(IF w.rawfp.st # "NULL"
                                      THEN hclose_abruptly(w, clobber)
                                      ELSE w))
              ELSE w
    IN [w |-> [w1 EXCEPT !.errno = save], ret |-> 0, fail |-> fail]

\* Header I/O with the result of the header write ignored.
open_header_unchecked(w, accmode, in) ==
    IF accmode = "O_RDONLY"
    THEN LET r == hread(w, IVLen, in.fault = "hread")
         IN IF r.n < 0
            THEN [w |-> r.w, ok |-> FALSE, fail |-> "hread", iv |-> <<>>]
            ELSE IF r.n < IVLen
            THEN [w |-> [r.w EXCEPT !.errno = "EDOM"], ok |-> FALSE,
                  fail |-> "short", iv |-> <<>>]
            ELSE [w |-> [r.w EXCEPT !.fp.is_write = FALSE], ok |-> TRUE,
                  fail |-> "none", iv |-> r.data]
    ELSE IF accmode = "O_WRONLY"
    THEN LET g == gen_random(w, IF in.fault = "gen_random" THEN in.status
                                ELSE OK, in.iv)
         IN IF g.n < 0
            THEN [w |-> g.w, ok |-> FALSE, fail |-> "gen_random", iv |-> <<>>]
            ELSE LET h == hwrite(g.w, g.iv, in.fault = "hwrite", in.acc)
                 IN [w |-> [h.w EXCEPT !.fp.is_write = TRUE],
                     ok |-> TRUE, fail |-> "none", iv |-> g.iv]
    ELSE [w |-> [w EXCEPT !.errno = "EINVAL"], ok |-> FALSE,
          fail |-> "accmode", iv |-> <<>>]

\* Header I/O without the test for a short header: what was read is
\* taken as the IV.
open_header_noshort(w, accmode, in) ==
    IF accmode = "O_RDONLY"
    THEN LET r == hread(w, IVLen, in.fault = "hread")
         IN IF r.n < 0
            THEN [w |-> r.w, ok |-> FALSE, fail |-> "hread", iv |-> <<>>]
            ELSE [w |-> [r.w EXCEPT !.fp.is_write = FALSE], ok |-> TRUE,
                  fail |-> "none",
                  iv |-> [j \in 1..IVLen |->
                            IF j <= r.n THEN r.data[j] ELSE 0]]
    ELSE IF accmode = "O_WRONLY"
    THEN LET g == gen_random(w, IF in.fault = "gen_random" THEN in.status
                                ELSE OK, in.iv)
         IN IF g.n < 0
            THEN [w |-> g.w, ok |-> FALSE, fail |-> "gen_random", iv |-> <<>>]
            ELSE LET h == hwrite(g.w, g.iv, in.fault = "hwrite", in.acc)
                 IN IF h.n # IVLen
                    THEN [w |-> h.w, ok |-> FALSE, fail |-> "hwrite",
                          iv |-> <<>>]
                    ELSE [w |-> [h.w EXCEPT !.fp.is_write = TRUE],
                          ok |-> TRUE, fail |-> "none", iv |-> g.iv]
    ELSE [w |-> [w EXCEPT !.errno = "EINVAL"], ok |-> FALSE,
          fail |-> "accmode", iv |-> <<>>]

\* Header I/O by access mode; sets fp->is_write.  ok = FALSE is goto error.
open_header(w, accmode, in) ==
    IF accmode = "O_RDONLY"
    THEN LET r == hread(w, IVLen, in.fault = "hread")
         IN IF r.n < 0
            THEN [w |-> r.w, ok |-> FALSE, fail |-> "hread", iv |-> <<>>]
            ELSE IF r.n < IVLen
            THEN [w |-> [r.w EXCEPT !.errno = "EDOM"], ok |-> FALSE,
                  fail |-> "short", iv |-> <<>>]
            ELSE [w |-> [r.w EXCEPT !.fp.is_write = FALSE], ok |-> TRUE,
                  fail |-> "none", iv |-> r.data]
    ELSE IF accmode = "O_WRONLY"
    THEN LET g == gen_random(w, IF in.fault = "gen_random" THEN in.status
                                ELSE OK, in.iv)
         IN IF g.n < 0
            THEN [w |-> g.w, ok |-> FALSE, fail |-> "gen_random", iv |-> <<>>]
            ELSE LET h == hwrite(g.w, g.iv, in.fault = "hwrite", in.acc)
                 IN IF h.n # IVLen
                    THEN [w |-> h.w, ok |-> FALSE, fail |-> "hwrite",
                          iv |-> <<>>]
                    ELSE [w |-> [h.w EXCEPT !.fp.is_write = TRUE],
                          ok |-> TRUE, fail |-> "none", iv |-> g.iv]
    ELSE [w |-> [w EXCEPT !.errno = "EINVAL"], ok |-> FALSE,
          fail |-> "accmode", iv |-> <<>>]

\* Engine initialisation that always sets the engine to encrypt.
open_engine_encrypt(w, key, iv, accmode, in) ==
    LET w1 == Count(w, "PBKDF2")
    IN IF in.fault = "PBKDF2"
       THEN open_error([w1 EXCEPT !.errno = crypto_errno(in.status)],
                       in.clobber, "PBKDF2")
       ELSE
         LET secret == PBKDF2(key, salt, PBKDF2Iterations)
             w2 == Count([w1 EXCEPT !.errno = Indeterminate], "cipher_init")
         IN IF in.fault = "cipher_init"
            THEN open_error([w2 EXCEPT !.errno = crypto_errno(in.status)],
                            in.clobber, "cipher_init")
            ELSE [w |-> [w2 EXCEPT
                           !.errno = Indeterminate,
                           !.fp.ctx = [st |-> "init", key |-> secret,
                                       iv |-> iv, pos |-> 0,
                                       enc |-> TRUE,
                                       fin |-> NoFin],
                           !.fp.live = "open"],
                  ret |-> 1, fail |-> "none"]

\* Key derivation and engine initialisation, then the handle is returned.
open_engine(w, key, iv, accmode, in) ==
    LET w1 == Count(w, "PBKDF2")
    IN IF in.fault = "PBKDF2"
       THEN open_error([w1 EXCEPT !.errno = crypto_errno(in.status)],
                       in.clobber, "PBKDF2")
       ELSE
         LET secret == PBKDF2(key, salt, PBKDF2Iterations)
             w2 == Count([w1 EXCEPT !.errno = Indeterminate], "cipher_init")
         IN IF in.fault = "cipher_init"
            THEN open_error([w2 EXCEPT !.errno = crypto_errno(in.status)],
                            in.clobber, "cipher_init")
            ELSE [w |-> [w2 EXCEPT
                           !.errno = Indeterminate,
                           !.fp.ctx = [st |-> "init", key |-> secret,
                                       iv |-> iv, pos |-> 0,
                                       enc |-> (accmode = "O_WRONLY"),
                                       fin |-> NoFin],
                           !.fp.live = "open"],
                  ret |-> 1, fail |-> "none"]

\* hopen_cip with the test for the secret made after the underlying
\* stream has been opened.
hopen_cip_body_latecheck(w, filename, key, mode, in) ==
    LET w1 == hfile_init(w, in.fault = "hfile_init")
    IN IF ~w1.fp.alloc
       THEN open_error(w1, in.clobber, "hfile_init")
       ELSE
         LET w2 == hopen(w1, strip_cip_scheme(filename), mode,
                          in.fault = "hopen")
         IN IF w2.rawfp.st = "NULL"
            THEN open_error(w2, in.clobber, "hopen")
            ELSE IF key = NULL
            THEN open_error([w2 EXCEPT !.errno = "EPERM"], in.clobber,
                            "nokey")
            ELSE
              LET w3 == malloc([w2 EXCEPT !.fp.bufsize = bufsize],
                               in.mallocFail)
                  accmode == hfile_accmode(mode)
                  hd == open_header(w3, accmode, in)
              IN IF ~hd.ok
                 THEN open_error(hd.w, in.clobber, hd.fail)
                 ELSE open_engine(hd.w, key, hd.iv, accmode, in)

hopen_cip_body(w, filename, key, mode, in) ==
    IF key = NULL
    THEN open_error([w EXCEPT !.errno = "EPERM"], in.clobber, "nokey")
    ELSE
      LET w1 == hfile_init(w, in.fault = "hfile_init")
      IN IF ~w1.fp.alloc
         THEN open_error(w1, in.clobber, "hfile_init")
         ELSE
           LET w2 == hopen(w1, strip_cip_scheme(filename), mode,
                          in.fault = "hopen")
           IN IF w2.rawfp.st = "NULL"
              THEN open_error(w2, in.clobber, "hopen")
              ELSE
                LET w3 == malloc([w2 EXCEPT !.fp.bufsize = bufsize],
                                 in.mallocFail)
                    accmode == hfile_accmode(mode)
                    hd == open_header(w3, accmode, in)
                IN IF ~hd.ok
                   THEN open_error(hd.w, in.clobber, hd.fail)
                   ELSE open_engine(hd.w, key, hd.iv, accmode, in)

----------------------------------------------------------------------------
(* Inputs *)

\* outputs of the random source
RandomIV(s) == [j \in 1..IVLen |-> (s * j + s) % (ByteMax + 1)]
RandomOutputs == {RandomIV(s) : s \in 1..NumIVs}

\* content of a target that no session of this model wrote
Foreign(n) == [j \in 1..n |-> (j * j + 1) % (ByteMax + 1)]
InitDisks == {Foreign(n) : n \in {0, IVLen - 1, IVLen + bufsize + 2}}

\* caller data
Payload(s, n) == [j \in 1..n |-> (s + j + (j \div 3)) % (ByteMax + 1)]
WriteLens == {1, bufsize + 1}
Payloads == {Payload(s, n) : s \in 0..(NumSeeds - 1), n \in WriteLens}
ReadLens == {1, 2 * bufsize + 2}

\* path strings and the file names made of them: the three prefixed forms,
\* and the path with no prefix
PathChars == {"/", "a"}
RECURSIVE PathsOfLen(_)
PathsOfLen(n) ==
    IF n = 0 THEN {<<>>}
    ELSE {<<c>> \o q : c \in PathChars, q \in PathsOfLen(n - 1)}
Paths == UNION {PathsOfLen(n) : n \in 0..MaxPath}
Filenames ==
    {pre \o q : pre \in {CipLocalhost, CipEmptyAuthority, CipBare, <<>>},
                 q \in Paths}
\* the name used where the name is not varied
DefaultName == CipBare \o <<"a">>

\* appending is exercised on targets no longer than this
MaxAppendBase == IVLen - 1

\* Inputs of one hopen_cip call: the step that fails (fault), the status of
\* a failing crypto call, the bytes a failing header write accepted, whether
\* malloc fails, the random source's output, and whether the cleanup calls
\* leave their own errno.  Inputs the call cannot observe are not varied.
OpenInput(f, statuses, accs, mallocs, ivs, clobbers) ==
    { [fault |-> f, status |-> s, acc |-> a, mallocFail |-> m, iv |-> v,
       clobber |-> c] :
        s \in statuses, a \in accs, m \in mallocs, v \in ivs,
        c \in clobbers }

AnyIV == CHOOSE v \in RandomOutputs : TRUE

OpenInputs(mode) ==
    LET accmode == hfile_accmode(mode)
        ivs == IF accmode = "O_WRONLY" THEN RandomOutputs ELSE {AnyIV}
    IN (IF accmode # "O_RDWR"
        THEN OpenInput("none", {OK}, {0}, BOOLEAN, ivs, {FALSE})
        ELSE OpenInput("none", {OK}, {0}, BOOLEAN, {AnyIV}, BOOLEAN))
       \cup OpenInput("hfile_init", {OK}, {0}, {FALSE}, {AnyIV}, {FALSE})
       \cup OpenInput("hopen", {OK}, {0}, {FALSE}, {AnyIV}, {FALSE})
       \cup (IF accmode = "O_RDONLY"
             THEN OpenInput("hread", {OK}, {0}, BOOLEAN, {AnyIV}, BOOLEAN)
             ELSE {})
       \cup (IF accmode = "O_WRONLY"
             THEN OpenInput("gen_random", CryptoFailures, {0}, BOOLEAN,
                            {AnyIV}, BOOLEAN)
                  \cup OpenInput("hwrite", {OK}, {0, IVLen - 1}, BOOLEAN,
                                 ivs, BOOLEAN)
             ELSE {})
       \cup (IF accmode # "O_RDWR"
             THEN OpenInput("PBKDF2", CryptoFailures, {0}, BOOLEAN, ivs,
                            BOOLEAN)
                  \cup OpenInput("cipher_init", CryptoFailures, {0}, BOOLEAN,
                                 ivs, BOOLEAN)
             ELSE {})

----------------------------------------------------------------------------
(* The environments *)

\* Inputs of a hopen_cip call in which every call it makes succeeds.
OpenInputsOK(mode) ==
    OpenInput("none", {OK}, {0}, {FALSE},
              IF hfile_accmode(mode) = "O_WRONLY" THEN RandomOutputs
              ELSE {AnyIV},
              {FALSE})

\* faulty = TRUE: any call into htslib, libc or the crypto library may fail.
\* faulty = FALSE: they all succeed.
OpenEnv(mode, faulty) ==
    IF faulty THEN OpenInputs(mode) ELSE OpenInputsOK(mode)

LoopEnv(nbytes, ioKind, faulty) ==
    IF faulty THEN LoopFaults(nbytes, ioKind) ELSE {NoFault}

\* cipher_final and the engine release fail with different statuses, so
\* that the stage an error code comes from can be told from the code.
FinalEnv(faulty) == IF faulty THEN {OK, "kCCMemoryFailure"} ELSE {OK}

ReleaseEnv(faulty) == IF faulty THEN {OK, "openssl"} ELSE {OK}

FailEnv(faulty) == IF faulty THEN BOOLEAN ELSE {FALSE}

\* What the caller writes.  Where calls may fail, the content of the data
\* is not varied, and a write on a read session is a single byte.
WriteEnv(faulty, is_write) ==
    IF ~faulty THEN Payloads
    ELSE IF is_write THEN {Payload(0, n) : n \in WriteLens}
    ELSE {Payload(0, 1)}

\* What the caller asks to read.  A read on a write session fails in the
\* underlying stream whatever the size.
ReadEnv(faulty, is_write) == IF is_write THEN {1} ELSE ReadLens

----------------------------------------------------------------------------
(* The memory-mapped backend (hfile_mmap.c)                                 *)

\* size_t and off_t are both OffBits wide (64 in an LP64 build).
SizeModulus == 2 ^ OffBits
SIZE_MAX == SizeModulus - 1
OFF_MAX == 2 ^ (OffBits - 1) - 1
OFF_MIN == -(2 ^ (OffBits - 1))

\* conversion of an integer to size_t, and of a size_t to off_t / ssize_t
SizeT(x) == x % SizeModulus
OffT(x) == IF SizeT(x) > OFF_MAX THEN SizeT(x) - SizeModulus ELSE SizeT(x)

\* A mapping covers whole pages: the bytes between the end of the file and
\* the end of its last page exist and read as zero.
PageSlack == 1

\* A byte read outside the mapping.
Wild == -1

NoMmapHist == [op |-> "none", ops |-> 0, nbytes |-> 0, offset |-> 0,
               whence |-> "none", data |-> <<>>, out |-> <<>>]

\* hFILE_mmap; live tells whether hopen_mmap has returned it, mmap_close has
\* been called on it, or the process was stopped inside one of its calls.
NoMmapFp == [live |-> "none", buffer |-> <<>>, length |-> 0, pos |-> 0,
             fd |-> -1, prot |-> "PROT_NONE"]

NoMmap == [fp |-> NoMmapFp, file |-> <<>>, path |-> <<>>, fds |-> 0,
           maps |-> 0, errno |-> NoError, ret |-> 0, hist |-> NoMmapHist]

MmapLocalhost == <<"m", "m", "a", "p", ":", "/", "/", "l", "o", "c", "a", "l",
                   "h", "o", "s", "t", "/">>
MmapEmptyAuthority == <<"m", "m", "a", "p", ":", "/", "/", "/">>
MmapBare == <<"m", "m", "a", "p", ":">>

\* hfile_oflags(mode) & O_TRUNC
hfile_truncates(mode) == mode \in {"w", "w+"}

\* memcpy(buffer, fp->buffer + pos, n)
CopyOut(buffer, pos, n) ==
    [j \in 1..n |-> IF pos + j <= Len(buffer) THEN buffer[pos + j] ELSE Wild]

\* memcpy(fp->buffer + pos, data, n): the bytes of the mapping afterwards
CopyIn(buffer, pos, data, n) ==
    [i \in 1..Len(buffer) |->
        IF pos < i /\ i <= pos + n THEN data[i - pos] ELSE buffer[i]]

\* the copy stays inside the mapping
InMapping(buffer, pos, n) == n = 0 \/ pos + n <= Len(buffer)

mmap_read_body(m, nbytes) ==
    LET avail == SizeT(m.fp.length - m.fp.pos)
        n == IF nbytes > avail THEN avail ELSE nbytes
    IN IF ~InMapping(m.fp.buffer, m.fp.pos, n)
       THEN [m |-> [m EXCEPT !.fp.live = "killed"], ret |-> m.ret,
             out |-> CopyOut(m.fp.buffer, m.fp.pos, n)]
       ELSE [m |-> [m EXCEPT !.fp.pos = SizeT(@ + n)], ret |-> OffT(n),
             out |-> CopyOut(m.fp.buffer, m.fp.pos, n)]

mmap_write_body(m, data, nbytes) ==
    LET avail == SizeT(m.fp.length - m.fp.pos)
        n == IF nbytes > avail THEN avail ELSE nbytes
        mem == CopyIn(m.fp.buffer, m.fp.pos, data, n)
    IN IF ~InMapping(m.fp.buffer, m.fp.pos, n)
       THEN [m |-> [m EXCEPT !.fp.live = "killed", !.fp.buffer = mem],
             ret |-> m.ret]
       ELSE [m |-> [m EXCEPT !.fp.buffer = mem,
                             !.fp.pos = SizeT(@ + n),
                             !.file = Take(mem, Len(m.file))],
             ret |-> OffT(n)]

\* -offset overflows for offset = OFF_MIN: the negation wraps to OFF_MIN
\* itself, or the build traps the overflow and the process stops.
NegOverflow == {"wrap", "trap"}

\* mmap_seek that tests a forward offset against the length alone.
mmap_seek_body_loose(m, offset, whence, overflow) ==
    LET absoffset == IF offset >= 0 THEN SizeT(offset) ELSE SizeT(-offset)
        known == whence \in {"SEEK_SET", "SEEK_CUR", "SEEK_END"}
        origin == CASE whence = "SEEK_SET" -> 0
                    [] whence = "SEEK_CUR" -> m.fp.pos
                    [] OTHER -> m.fp.length
        pos == SizeT(origin + offset)
    IN IF offset = OFF_MIN /\ overflow = "trap"
       THEN [m |-> [m EXCEPT !.fp.live = "killed"], ret |-> m.ret]
       ELSE IF ~known
       THEN [m |-> [m EXCEPT !.errno = "EINVAL"], ret |-> -1]
       ELSE IF \/ offset < 0 /\ absoffset > origin
               \/ offset >= 0 /\ absoffset > m.fp.length
       THEN [m |-> [m EXCEPT !.errno = "EINVAL"], ret |-> -1]
       ELSE [m |-> [m EXCEPT !.fp.pos = pos], ret |-> OffT(pos)]

mmap_seek_body(m, offset, whence, overflow) ==
    LET absoffset == IF offset >= 0 THEN SizeT(offset) ELSE SizeT(-offset)
        known == whence \in {"SEEK_SET", "SEEK_CUR", "SEEK_END"}
        origin == CASE whence = "SEEK_SET" -> 0
                    [] whence = "SEEK_CUR" -> m.fp.pos
                    [] OTHER -> m.fp.length
        pos == SizeT(origin + offset)
    IN IF offset = OFF_MIN /\ overflow = "trap"
       THEN [m |-> [m EXCEPT !.fp.live = "killed"], ret |-> m.ret]
       ELSE IF ~known
       THEN [m |-> [m EXCEPT !.errno = "EINVAL"], ret |-> -1]
       ELSE IF \/ offset < 0 /\ absoffset > origin
               \/ offset >= 0 /\ absoffset > SizeT(m.fp.length - origin)
       THEN [m |-> [m EXCEPT !.errno = "EINVAL"], ret |-> -1]
       ELSE [m |-> [m EXCEPT !.fp.pos = pos], ret |-> OffT(pos)]

\* munmap() then close(); either failing makes the result -1.
mmap_close_body(m, munmapFail, closeFail) ==
    LET m1 == IF munmapFail THEN [m EXCEPT !.errno = "EINVAL"]
              ELSE [m EXCEPT !.maps = @ - 1]
        m2 == IF closeFail THEN [m1 EXCEPT !.errno = "EIO", !.fds = @ - 1]
              ELSE [m1 EXCEPT !.fds = @ - 1]
    IN [m |-> [m2 EXCEPT !.fp.live = "closed"],
        ret |-> IF munmapFail \/ closeFail THEN -1 ELSE 0]

NoMmapFault == [open |-> FALSE, fstat |-> FALSE, mmap |-> FALSE,
                hfile_init |-> FALSE]

\* mmap() fails for a length of zero and for a descriptor not open for
\* reading, whatever else the system does.
hopen_mmap_body(m, filename, modestr, in) ==
    LET path == IF HasPrefix(filename, MmapLocalhost, 17)
                THEN Drop(filename, 16)
                ELSE IF HasPrefix(filename, MmapEmptyAuthority, 8)
                THEN Drop(filename, 7)
                ELSE IF HasPrefix(filename, MmapBare, 5)
                THEN Drop(filename, 5)
                ELSE filename
        accmode == hfile_accmode(modestr)
        file == IF hfile_truncates(modestr) THEN <<>> ELSE m.file
        st_size == Len(file)
        prot == CASE accmode = "O_RDONLY" -> "PROT_READ"
                  [] accmode = "O_WRONLY" -> "PROT_WRITE"
                  [] OTHER -> "PROT_READ|PROT_WRITE"
        m0 == [m EXCEPT !.path = path]
        m1 == [m0 EXCEPT !.file = file]
    IN IF in.open
       THEN [m |-> [m0 EXCEPT !.errno = "ENOENT"], ret |-> NULL]
       ELSE IF in.fstat
       THEN [m |-> [m1 EXCEPT !.errno = "EIO"], ret |-> NULL]
       ELSE IF st_size = 0
       THEN [m |-> [m1 EXCEPT !.errno = "EINVAL"], ret |-> NULL]
       ELSE IF accmode = "O_WRONLY"
       THEN [m |-> [m1 EXCEPT !.errno = "EACCES"], ret |-> NULL]
       ELSE IF in.mmap \/ in.hfile_init
       THEN [m |-> [m1 EXCEPT !.errno = "ENOMEM"], ret |-> NULL]
       ELSE [m |-> [m1 EXCEPT !.fds = @ + 1, !.maps = @ + 1,
                              !.fp = [live |-> "open",
                                      buffer |-> file \o [j \in 1..PageSlack |-> 0],
                                      length |-> st_size,
                                      pos |-> 0,
                                      fd |-> 3,
                                      prot |-> prot]],
             ret |-> 1]

\* The files of the model: one of every size an off_t can tell.
MmapFiles == {[j \in 1..n |-> (j + 1) % (ByteMax + 1)] : n \in 0..OFF_MAX}

MmapNames == {MmapLocalhost \o <<"a">>, MmapEmptyAuthority \o <<"a">>,
              MmapBare \o <<"a">>}

\* requests of no bytes, of a few, and of as many as a size_t can ask for
MmapLens == {0, 1, 2, SIZE_MAX}

\* one stage of hopen_mmap fails, or none does
MmapFaults ==
    {NoMmapFault} \cup
    {[NoMmapFault EXCEPT ![c] = TRUE] :
        c \in {"open", "fstat", "mmap", "hfile_init"}}

----------------------------------------------------------------------------
(* The iRODS backend (hfile_irods.c)                                        *)

\* errno values (Linux); 0 is "no error"
ENOENT == 2
EIO == 5
EBADF == 9
ENOMEM == 12
EACCES == 13
EEXIST == 17
EINVAL == 22
ENFILE == 23
ECONNREFUSED == 111
EHOSTUNREACH == 113

\* iRODS status codes (rodsErrorTable.h): multiples of 1000, from which the
\* library subtracts the errno of a failed system call
SYS_SOCK_OPEN_ERR == -1000
SYS_NO_API_PRIV == -13000
SYS_MALLOC_ERR == -16000
SYS_OUT_OF_FILE_DESC == -18000
SYS_BAD_FILE_DESCRIPTOR == -23000
SYS_INVALID_INPUT_PARAM == -130000
USER_RODS_HOST_EMPTY == -303000
USER_SOCK_CONNECT_ERR == -305000
CAT_NO_ROWS_FOUND == -808000
CATALOG_ALREADY_HAS_ITEM_BY_THAT_NAME == -809000
CAT_NO_ACCESS_PERMISSION == -818000
CAT_INVALID_AUTHENTICATION == -826000
CAT_INVALID_USER == -827000

\* The cases of a build whose iRODS defines PLUGIN_ERROR are left out.
status_errno(status) ==
    CASE status = SYS_INVALID_INPUT_PARAM -> EINVAL
      [] status = SYS_NO_API_PRIV -> EACCES
      [] status = SYS_MALLOC_ERR -> ENOMEM
      [] status = SYS_OUT_OF_FILE_DESC -> ENFILE
      [] status = SYS_BAD_FILE_DESCRIPTOR -> EBADF
      [] status = USER_RODS_HOST_EMPTY -> EHOSTUNREACH
      [] status = CAT_NO_ACCESS_PERMISSION -> EACCES
      [] status = CAT_INVALID_AUTHENTICATION -> EACCES
      [] status = CAT_INVALID_USER -> EACCES
      [] status = CAT_NO_ROWS_FOUND -> ENOENT
      [] status = CATALOG_ALREADY_HAS_ITEM_BY_THAT_NAME -> EEXIST
      [] OTHER -> EIO

\* the value set_errno stores in errno
set_errno(status) ==
    LET abs == IF status < 0 THEN -status ELSE status
        err == abs % 1000
    IN IF err # 0 THEN err ELSE status_errno(status)

\* open flags (Linux), and the bits two flag words share
O_RDONLY == 0
O_WRONLY == 1
O_RDWR == 2
O_CREAT == 64
O_TRUNC == 512
O_APPEND == 1024

RECURSIVE BitAnd(_, _)
BitAnd(a, b) ==
    IF a = 0 \/ b = 0 THEN 0
    ELSE ((a % 2) * (b % 2)) + 2 * BitAnd(a \div 2, b \div 2)

hfile_oflags(mode) ==
    CASE mode = "r" -> O_RDONLY
      [] mode = "w" -> O_WRONLY + O_CREAT + O_TRUNC
      [] mode = "a" -> O_WRONLY + O_CREAT + O_APPEND
      [] mode = "r+" -> O_RDWR
      [] OTHER -> O_RDWR + O_CREAT + O_TRUNC

PUBLIC_USER_NAME == "anonymous"

\* strspn(s, accept)
RECURSIVE strspn(_, _)
strspn(s, accept) ==
    IF s = <<>> \/ Head(s) \notin accept THEN 0
    ELSE 1 + strspn(Tail(s), accept)

\* s[i] of a C string: the terminating NUL follows the last character
CharAt(s, i) == IF i < Len(s) THEN s[i + 1] ELSE "NUL"

\* strchr(s, ':') + 1 of a string that holds a colon
RECURSIVE AfterColon(_)
AfterColon(s) == IF Head(s) = ":" THEN Tail(s) ELSE AfterColon(Tail(s))

IrodsScheme == <<"i", "r", "o", "d", "s">>
VersionChars == {"0", "1", "2", "3", "4", "5", "6", "7", "8", "9", "."}

NoArgs == [objPath |-> <<>>, openFlags |-> 0, oprType |-> "none",
           createMode |-> 0, condInput |-> "none"]

NoIrodsHist == [op |-> "none", opens |-> 0, filename |-> <<>>,
                mode |-> "none", stage |-> "none"]

\* The static irods (conn: NULL or the index of a connection in server; env)
\* and what the calls of the backend act on: the connections the server has
\* seen, the descriptors open on it, the rcDataObjOpen request of the last
\* hopen_irods, the process's atexit list, SIGPIPE handler (saved before
\* rcConnect and restored after it) and SP_OPTION variable.
NoIrods == [conn |-> NULL, env |-> "unset", server |-> <<>>,
            descriptors |-> {}, args |-> NoArgs,
            inits |-> 0, atexits |-> 0, exited |-> FALSE,
            sigpipe |-> "caller", sp_option |-> FALSE,
            errno |-> 0, ret |-> 0, hist |-> NoIrodsHist]

rcDisconnect(g, conn) == [g EXCEPT !.server[conn].state = "disconnected"]

\* irods_init that leaves irods.conn as it is when a step fails.
irods_init_keep(g, user, in) ==
    IF in.stage = "getRodsEnv"
    THEN [g |-> [g EXCEPT !.inits = @ + 1, !.errno = set_errno(in.status)],
          ret |-> -1]
    ELSE
    LET g1 == [g EXCEPT !.inits = @ + 1, !.env = user, !.sp_option = TRUE]
        conn == Len(g.server) + 1
        g2 == [g1 EXCEPT !.conn = conn,
                         !.server = Append(@, [state |-> "connected",
                                               login |-> FALSE])]
    IN IF in.stage = "rcConnect"
       THEN [g |-> [g1 EXCEPT !.errno = set_errno(in.status)], ret |-> -1]
       ELSE IF user # PUBLIC_USER_NAME /\ in.stage = "clientLogin"
       THEN [g |-> [g2 EXCEPT !.errno = set_errno(in.status)], ret |-> -1]
       ELSE [g |-> [g2 EXCEPT !.server[conn].login = (user # PUBLIC_USER_NAME),
                              !.atexits = @ + 1],
             ret |-> 0]

irods_init(g, user, in) ==
    IF in.stage = "getRodsEnv"
    THEN [g |-> [g EXCEPT !.inits = @ + 1, !.conn = NULL,
                          !.errno = set_errno(in.status)],
          ret |-> -1]
    ELSE
    LET g1 == [g EXCEPT !.inits = @ + 1, !.env = user, !.sp_option = TRUE]
        conn == Len(g.server) + 1
        g2 == [g1 EXCEPT !.conn = conn,
                         !.server = Append(@, [state |-> "connected",
                                               login |-> FALSE])]
    IN IF in.stage = "rcConnect"
       THEN [g |-> [g1 EXCEPT !.conn = NULL,
                              !.errno = set_errno(in.status)],
             ret |-> -1]
       ELSE IF user # PUBLIC_USER_NAME /\ in.stage = "clientLogin"
       THEN [g |-> [rcDisconnect(g2, conn) EXCEPT
                       !.conn = NULL, !.errno = set_errno(in.status)],
             ret |-> -1]
       ELSE [g |-> [g2 EXCEPT !.server[conn].login = (user # PUBLIC_USER_NAME),
                              !.atexits = @ + 1],
             ret |-> 0]

irods_exit_body(g) ==
    [(IF g.conn # NULL THEN rcDisconnect(g, g.conn) ELSE g) EXCEPT
        !.conn = NULL, !.exited = TRUE]

\* rcDataObjOpen hands out the lowest descriptor not in use, from 3 on.
NewDescriptor(g) ==
    CHOOSE d \in 3..(3 + Cardinality(g.descriptors)) :
        /\ d \notin g.descriptors
        /\ \A e \in 3..(d - 1) : e \in g.descriptors

hopen_irods_body(g, filename, mode, user, in) ==
    LET i == IF g.conn = NULL THEN irods_init(g, user, in)
             ELSE [g |-> g, ret |-> 0]
        g0 == [i.g EXCEPT !.args = NoArgs]
        span == strspn(Drop(filename, 5), VersionChars)
        openFlags == hfile_oflags(mode)
        args == [objPath |-> AfterColon(filename),
                 openFlags |-> openFlags,
                 oprType |-> IF BitAnd(openFlags, O_RDONLY) # 0
                             THEN "GET_OPR" ELSE "PUT_OPR",
                 createMode |-> IF BitAnd(openFlags, O_CREAT) # 0
                                THEN 438 ELSE 0,
                 condInput |-> IF BitAnd(openFlags, O_CREAT) # 0
                               THEN "DEST_RESC_NAME_KW" ELSE "none"]
        d == NewDescriptor(g0)
    IN IF i.ret < 0 THEN [g |-> g0, ret |-> NULL]
       ELSE IF ~(HasPrefix(filename, IrodsScheme, 5)
                 /\ CharAt(filename, 5 + span) = ":")
       THEN [g |-> [g0 EXCEPT !.errno = EINVAL], ret |-> NULL]
       ELSE IF in.stage = "hfile_init"
       THEN [g |-> [g0 EXCEPT !.errno = ENOMEM], ret |-> NULL]
       ELSE IF in.stage = "parseRodsPath"
       THEN [g |-> [g0 EXCEPT !.errno = set_errno(in.status)], ret |-> NULL]
       ELSE IF in.stage = "rcDataObjOpen"
       THEN [g |-> [g0 EXCEPT !.args = args,
                              !.errno = set_errno(in.status)],
             ret |-> NULL]
       ELSE [g |-> [g0 EXCEPT !.args = args,
                              !.descriptors = @ \cup {d}],
             ret |-> d]

\* irods_read, irods_write and irods_close return what the server answers
\* and translate a negative answer into errno.
irods_transfer_body(g, answer) ==
    [g |-> [g EXCEPT !.errno = IF answer < 0 THEN set_errno(answer) ELSE @],
     ret |-> answer]

\* irods_seek: the offset the server reports (-1 when it reports none), or
\* -1 for a negative answer
irods_seek_body(g, answer, out) ==
    [g |-> [g EXCEPT !.errno = IF answer < 0 THEN set_errno(answer) ELSE @],
     ret |-> IF answer < 0 THEN -1 ELSE out]

irods_close_body(g, descriptor, answer) ==
    [g |-> [g EXCEPT !.descriptors = @ \ {descriptor},
                     !.errno = IF answer < 0 THEN set_errno(answer) ELSE @],
     ret |-> answer]

\* file names: the plain scheme, a scheme with a version, and one that is
\* neither
IrodsNames == {IrodsScheme \o <<":", "a">>,
               IrodsScheme \o <<"4", ".", "1", ":", "a">>,
               IrodsScheme \o <<"x", ":", "a">>}

\* statuses of a failed call: one that carries the errno of a system call
\* and one that status_errno translates
IrodsStatuses == {USER_SOCK_CONNECT_ERR - ECONNREFUSED,
                  CAT_INVALID_AUTHENTICATION}

InitStages == {"getRodsEnv", "rcConnect", "clientLogin"}

\* one call made by hopen_irods fails, or none does; rcConnect may fail
\* without a status, and clientLogin with a positive one
IrodsFaults ==
    {[stage |-> "none", status |-> 0]} \cup
    {[stage |-> s, status |-> st] :
        s \in InitStages \cup {"parseRodsPath", "rcDataObjOpen"},
        st \in IrodsStatuses} \cup
    {[stage |-> "hfile_init", status |-> 0],
     [stage |-> "rcConnect", status |-> 0],
     [stage |-> "clientLogin", status |-> 1]}

\* the calls an open makes, and so the ones that may fail in it, and the
\* user the environment names, depend on whether irods_init runs
IrodsFaultsAt(conn) ==
    IF conn = NULL THEN IrodsFaults
    ELSE {in \in IrodsFaults : in.stage \notin InitStages}

IrodsUsersAt(conn, env) ==
    IF conn = NULL THEN {PUBLIC_USER_NAME, "alice"} ELSE {env}

----------------------------------------------------------------------------
(* The actions: one call of a backend function each *)

\* No call of the "cip:" backend has been made.
InitCip ==
    /\ HTS_CIP_KEY \in {NULL} \cup Keys
    /\ disk \in InitDisks
    /\ fp = NoFp
    /\ rawfp = NoRaw
    /\ errno = NoError
    /\ ret = 0
    /\ calls = NoCalls
    /\ hist = NoHist
    /\ prov = NoProv
    /\ remote = NoRemote

Init ==
    /\ InitCip
    /\ mmap = NoMmap
    /\ irods = NoIrods

Commit(w) ==
    /\ fp' = w.fp
    /\ rawfp' = w.rawfp
    /\ disk' = w.disk
    /\ errno' = w.errno
    /\ calls' = w.calls

OpenCall(faulty, names) ==
    /\ \E mode \in Modes, filename \in names :
         /\ mode = "a" => Len(disk) <= MaxAppendBase
         /\ \E in \in OpenEnv(mode, faulty) :
              LET w0 == [World EXCEPT !.fp = NoFp, !.rawfp = NoRaw,
                                      !.calls = NoCalls]
                  r == hopen_cip_body(w0, filename, HTS_CIP_KEY, mode, in)
              IN /\ Commit(r.w)
                 /\ ret' = r.ret
                 /\ hist' = [NoHist EXCEPT !.op = "open", !.mode = mode,
                                           !.filename = filename,
                                           !.fault = in.fault,
                                           !.status = in.status,
                                           !.iv = in.iv,
                                           !.fail = r.fail]
                 /\ prov' = IF r.w.disk = disk THEN prov ELSE NoProv
    /\ UNCHANGED <<HTS_CIP_KEY, remote, mmap, irods>>

ReadCall(faulty) ==
    /\ fp.live = "open"
    /\ hist.ops < MaxOps
    /\ \E nbytes \in ReadEnv(faulty, fp.is_write) :
         \E fault \in LoopEnv(nbytes, "hread", faulty) :
           LET r == cip_read_body(World, nbytes, fault)
           IN /\ Commit(IF r.crashed
                        THEN [r.w EXCEPT !.fp.live = "crashed"] ELSE r.w)
              /\ ret' = IF r.crashed THEN ret ELSE r.ret
              /\ hist' = [hist EXCEPT
                            !.op = "read", !.ops = @ + 1, !.reads = @ + 1,
                            !.req = nbytes, !.lfault = fault,
                            !.got = IF r.ret > 0 THEN @ \o r.out ELSE @,
                            !.eof = @ \/ (r.ret = 0),
                            !.clean = @ /\ r.ret >= 0 /\ ~fp.is_write,
                            !.failed = @ \/ r.ret < 0]
    /\ UNCHANGED <<HTS_CIP_KEY, prov, remote, mmap, irods>>

WriteCall(faulty) ==
    /\ fp.live = "open"
    /\ hist.ops < MaxOps
    /\ \E data \in WriteEnv(faulty, fp.is_write) :
         \E fault \in LoopEnv(Len(data), "hwrite", faulty) :
           LET r == cip_write_body(World, data, fault)
           IN /\ Commit(IF r.crashed
                        THEN [r.w EXCEPT !.fp.live = "crashed"] ELSE r.w)
              /\ ret' = IF r.crashed THEN ret ELSE r.ret
              /\ hist' = [hist EXCEPT
                            !.op = "write", !.ops = @ + 1, !.writes = @ + 1,
                            !.req = Len(data), !.lfault = fault,
                            !.plain = IF r.ret >= 0 THEN @ \o data ELSE @,
                            !.clean = @ /\ r.ret >= 0 /\ fp.is_write,
                            !.failed = @ \/ r.ret < 0]
    /\ UNCHANGED <<HTS_CIP_KEY, prov, remote, mmap, irods>>

Whences == {"SEEK_SET", "SEEK_CUR", "SEEK_END", "other"}

cip_seek ==
    /\ fp.live = "open"
    /\ hist.ops < MaxOps
    /\ \E offset \in {-1, 0, IVLen}, whence \in Whences :
         LET r == cip_seek_body(World)
         IN /\ Commit(r.w)
            /\ ret' = r.ret
    /\ hist' = [hist EXCEPT !.op = "seek", !.ops = @ + 1]
    /\ UNCHANGED <<HTS_CIP_KEY, prov, remote, mmap, irods>>

CloseCall(faulty) ==
    /\ fp.live = "open"
    /\ \E finalStatus \in FinalEnv(faulty),
          releaseStatus \in ReleaseEnv(faulty),
          closeFail \in FailEnv(faulty) :
         /\ ~fp.is_write => finalStatus = OK
         /\ LET r == cip_close_body(World, finalStatus, FALSE, releaseStatus,
                                    closeFail)
                good == hist.clean /\ r.ret = 0 /\ fp.is_write /\ disk = <<>>
            IN /\ Commit([r.w EXCEPT !.fp.live = "closed"])
               /\ ret' = r.ret
               /\ hist' = [hist EXCEPT !.op = "close",
                                         !.final = finalStatus,
                                         !.release = releaseStatus,
                                         !.closeFail = closeFail]
               /\ prov' = IF good
                          THEN [ok |-> TRUE, key |-> HTS_CIP_KEY,
                                plain |-> hist.plain]
                          ELSE IF r.w.disk = disk THEN prov ELSE NoProv
    /\ UNCHANGED <<HTS_CIP_KEY, remote, mmap, irods>>

----------------------------------------------------------------------------
(* Spec: one call of hopen_cip and the life of the handle it returns, in   *)
(* an environment where any call the backend makes may fail, and with a    *)
(* caller that may read and write on either kind of session.               *)

hopen_cip == hist.op = "none" /\ OpenCall(TRUE, {DefaultName})
cip_read == ReadCall(TRUE)
cip_write == WriteCall(TRUE)
cip_close == CloseCall(TRUE)

Next ==
    \/ hopen_cip
    \/ cip_read
    \/ cip_write
    \/ cip_seek
    \/ cip_close

Spec == Init /\ [][Next]_vars

----------------------------------------------------------------------------
(* SpecSessions: any number of sessions one after the other on the same    *)
(* target, in an environment where every call the backend makes succeeds,  *)
(* and with a caller that only reads read sessions, only writes write      *)
(* sessions and does not seek.                                             *)

hopen_cip_ok ==
    fp.live \in {"none", "closed"} /\ OpenCall(FALSE, {DefaultName})
cip_read_ok == ~fp.is_write /\ ReadCall(FALSE)
cip_write_ok == fp.is_write /\ WriteCall(FALSE)
cip_close_ok == CloseCall(FALSE)

NextSessions ==
    \/ hopen_cip_ok
    \/ cip_read_ok
    \/ cip_write_ok
    \/ cip_close_ok

SpecSessions == Init /\ [][NextSessions]_vars

----------------------------------------------------------------------------
(* SpecNames: one call of hopen_cip or of cip_isremote, with any file name, *)
(* in an environment where every call they make succeeds.                  *)

hopen_cip_named ==
    hist.op = "none" /\ ~remote.called /\ OpenCall(FALSE, Filenames)

cip_isremote ==
    /\ hist.op = "none"
    /\ ~remote.called
    /\ \E filename \in Filenames : remote' = cip_isremote_body(filename)
    /\ UNCHANGED <<HTS_CIP_KEY, disk, fp, rawfp, errno, ret, calls, hist,
                   prov, mmap, irods>>

NextNames ==
    \/ hopen_cip_named
    \/ cip_isremote

SpecNames == Init /\ [][NextNames]_vars

----------------------------------------------------------------------------
(* SpecMmap: one call of hopen_mmap on a file of any size and the life of   *)
(* the handle it returns, with a caller that reads and writes as the        *)
(* protection of the mapping allows and seeks anywhere.                     *)

InitMmap ==
    /\ InitCip
    /\ HTS_CIP_KEY = NULL
    /\ disk = <<>>
    /\ mmap \in {[NoMmap EXCEPT !.file = f] : f \in MmapFiles}
    /\ irods = NoIrods

MmapIdle == UNCHANGED <<HTS_CIP_KEY, disk, fp, rawfp, errno, ret, calls,
                        hist, prov, remote, irods>>

hopen_mmap ==
    /\ mmap.fp.live = "none"
    /\ mmap.hist.op = "none"
    /\ \E filename \in MmapNames, modestr \in Modes, in \in MmapFaults :
         LET r == hopen_mmap_body(mmap, filename, modestr, in)
         IN mmap' = [r.m EXCEPT !.ret = r.ret, !.hist.op = "open"]
    /\ MmapIdle

mmap_read ==
    /\ mmap.fp.live = "open"
    /\ mmap.fp.prot \in {"PROT_READ", "PROT_READ|PROT_WRITE"}
    /\ mmap.hist.ops < MaxOps
    /\ \E nbytes \in MmapLens :
         LET r == mmap_read_body(mmap, nbytes)
         IN mmap' = [r.m EXCEPT !.ret = r.ret,
                                !.hist = [NoMmapHist EXCEPT
                                            !.op = "read",
                                            !.ops = mmap.hist.ops + 1,
                                            !.nbytes = nbytes,
                                            !.out = r.out]]
    /\ MmapIdle

mmap_write ==
    /\ mmap.fp.live = "open"
    /\ mmap.fp.prot \in {"PROT_WRITE", "PROT_READ|PROT_WRITE"}
    /\ mmap.hist.ops < MaxOps
    /\ \E nbytes \in MmapLens, seed \in 0..(NumSeeds - 1) :
         LET data == Payload(seed, nbytes)
             r == mmap_write_body(mmap, data, nbytes)
         IN mmap' = [r.m EXCEPT !.ret = r.ret,
                                !.hist = [NoMmapHist EXCEPT
                                            !.op = "write",
                                            !.ops = mmap.hist.ops + 1,
                                            !.nbytes = nbytes,
                                            !.data = data]]
    /\ MmapIdle

mmap_seek ==
    /\ mmap.fp.live = "open"
    /\ mmap.hist.ops < MaxOps
    /\ \E offset \in OFF_MIN..OFF_MAX, whence \in Whences,
          overflow \in NegOverflow :
         /\ offset # OFF_MIN => overflow = "wrap"
         /\ LET r == mmap_seek_body(mmap, offset, whence, overflow)
            IN mmap' = [r.m EXCEPT !.ret = r.ret,
                                   !.hist = [NoMmapHist EXCEPT
                                               !.op = "seek",
                                               !.ops = mmap.hist.ops + 1,
                                               !.offset = offset,
                                               !.whence = whence]]
    /\ MmapIdle

mmap_close ==
    /\ mmap.fp.live = "open"
    /\ \E munmapFail \in BOOLEAN, closeFail \in BOOLEAN :
         LET r == mmap_close_body(mmap, munmapFail, closeFail)
         IN mmap' = [r.m EXCEPT !.ret = r.ret,
                                !.hist = [NoMmapHist EXCEPT !.op = "close"]]
    /\ MmapIdle

NextMmap ==
    \/ hopen_mmap
    \/ mmap_read
    \/ mmap_write
    \/ mmap_seek
    \/ mmap_close

SpecMmap == InitMmap /\ [][NextMmap]_vars

----------------------------------------------------------------------------
(* SpecIrods: the life of a process that uses the iRODS backend: opens of   *)
(* any name in any mode, calls on the handles they return, and the exit of  *)
(* the process, against a library and a server any call of which may fail.  *)

InitIrods ==
    /\ InitCip
    /\ HTS_CIP_KEY = NULL
    /\ disk = <<>>
    /\ mmap = NoMmap
    /\ irods = NoIrods

IrodsIdle == UNCHANGED <<HTS_CIP_KEY, disk, fp, rawfp, errno, ret, calls,
                         hist, prov, remote, mmap>>

hopen_irods ==
    /\ ~irods.exited
    /\ irods.hist.opens < MaxOpens
    /\ \E filename \in IrodsNames, mode \in Modes,
          user \in IrodsUsersAt(irods.conn, irods.env),
          in \in IrodsFaultsAt(irods.conn) :
         LET r == hopen_irods_body(irods, filename, mode, user, in)
         IN irods' = [r.g EXCEPT !.ret = r.ret,
                                 !.hist = [@ EXCEPT !.op = "open",
                                                    !.opens = @ + 1,
                                                    !.filename = filename,
                                                    !.mode = mode,
                                                    !.stage = in.stage]]
    /\ IrodsIdle

IrodsCall(op) ==
    /\ ~irods.exited
    /\ irods.descriptors # {}
    /\ \E answer \in {2, SYS_BAD_FILE_DESCRIPTOR} :
         LET r == irods_transfer_body(irods, answer)
         IN irods' = [r.g EXCEPT !.ret = r.ret,
                                 !.hist.op = op]
    /\ IrodsIdle

irods_read == IrodsCall("read")
irods_write == IrodsCall("write")

irods_seek ==
    /\ ~irods.exited
    /\ irods.descriptors # {}
    /\ \E answer \in {0, SYS_BAD_FILE_DESCRIPTOR}, out \in {-1, 2} :
         LET r == irods_seek_body(irods, answer, out)
         IN irods' = [r.g EXCEPT !.ret = r.ret, !.hist.op = "seek"]
    /\ IrodsIdle

irods_close ==
    /\ ~irods.exited
    /\ \E descriptor \in irods.descriptors,
          answer \in {0, SYS_BAD_FILE_DESCRIPTOR} :
         LET r == irods_close_body(irods, descriptor, answer)
         IN irods' = [r.g EXCEPT !.ret = r.ret, !.hist.op = "close"]
    /\ IrodsIdle

\* exit() runs the functions registered with atexit
irods_exit ==
    /\ ~irods.exited
    /\ irods.atexits > 0
    /\ irods' = [irods_exit_body(irods) EXCEPT !.hist.op = "exit"]
    /\ IrodsIdle

NextIrods ==
    \/ hopen_irods
    \/ irods_read
    \/ irods_write
    \/ irods_seek
    \/ irods_close
    \/ irods_exit

SpecIrods == InitIrods /\ [][NextIrods]_vars

----------------------------------------------------------------------------
(* Properties *)

AccMode == hfile_accmode(hist.mode)

\* The handle exists: hopen_cip returned it (and it may since be closed).
Session == fp.live \in {"open", "closed"}

\* C1 (SpecSessions): round trip.  When the target was written, from empty,
\* by a write session in which hopen_cip, every cip_write and cip_close
\* succeeded, and a later read session under the same secret has read it
\* until a cip_read returned 0, the bytes the reads returned are exactly
\* the bytes the writes were given, in order.
RoundTrip ==
    (/\ prov.ok
     /\ prov.key = HTS_CIP_KEY
     /\ Session
     /\ ~fp.is_write
     /\ hist.clean
     /\ hist.eof)
    => hist.got = prov.plain

RoundTripWitness ==
    /\ prov.ok
    /\ Session
    /\ ~fp.is_write
    /\ hist.eof
    /\ hist.reads >= 2
    /\ Len(prov.plain) > bufsize
    /\ hist.got = prov.plain

\* C2 (Spec): on a write session in which every call so far succeeded, the
\* underlying stream has been handed the 16-byte IV followed by as many
\* bytes as the caller supplied; a successful cip_write of n bytes returns
\* n; a successful cip_close adds nothing.
LengthPreserved ==
    (/\ Session
     /\ fp.is_write
     /\ hist.clean
     /\ fp.live = "closed" => ret = 0)
    => /\ Len(rawfp.out) = IVLen + Len(hist.plain)
       /\ Take(rawfp.out, IVLen) = hist.iv
       /\ hist.iv \in RandomOutputs
       /\ (hist.op = "write" => ret = hist.req)

LengthPreservedWitness ==
    /\ fp.live = "closed"
    /\ fp.is_write
    /\ ret = 0
    /\ hist.clean
    /\ hist.writes >= 2
    /\ Len(hist.plain) > bufsize
    /\ Len(rawfp.out) = IVLen + Len(hist.plain)

\* C3 (Spec): on a stream opened write-only, whatever the stream has been
\* handed starts with the IV; a write-session handle exists only once the
\* whole 16-byte IV has been handed over; the engine has transformed
\* nothing before that; a failed header write yields no handle.
HeaderFirst ==
    /\ (fp.is_write /\ fp.live \in {"open", "closed", "crashed"}) =>
          /\ Len(rawfp.out) >= IVLen
          /\ Take(rawfp.out, IVLen) = hist.iv
    /\ (AccMode = "O_WRONLY" /\ Len(rawfp.out) < IVLen) =>
          /\ fp.live = "none"
          /\ calls["cipher_update"] = 0
          /\ rawfp.out = Take(hist.iv, Len(rawfp.out))
    /\ (AccMode = "O_WRONLY" /\ hist.fault = "hwrite"
          /\ calls["hwrite"] > 0) =>
          /\ fp.live = "none"
          /\ ret = 0
          /\ Len(rawfp.out) < IVLen

HeaderFirstWitness ==
    /\ fp.live = "open"
    /\ fp.is_write
    /\ hist.op = "write"
    /\ Len(rawfp.out) > IVLen + bufsize
    /\ Take(rawfp.out, IVLen) = hist.iv

\* C4 (Spec): while a handle is open the underlying stream is open and has
\* never been closed, whatever reads, writes and seeks were made and however
\* they ended; once cip_close has returned, the underlying stream has been
\* closed exactly once, by hclose, whatever the stages of cip_close reported.
RawClosedOnce ==
    /\ fp.live \in {"open", "crashed"} =>
          /\ rawfp.st = "open"
          /\ calls["hclose"] = 0
          /\ calls["hclose_abruptly"] = 0
    /\ fp.live = "closed" =>
          /\ rawfp.st = "closed"
          /\ calls["hclose"] = 1
          /\ calls["hclose_abruptly"] = 0

RawClosedOnceWitness ==
    /\ fp.live = "closed"
    /\ ~hist.clean
    /\ hist.ops >= 2
    /\ hist.final # OK
    /\ hist.release # OK
    /\ rawfp.st = "closed"
    /\ calls["hclose"] = 1

StagesFailed ==
    (IF hist.final # OK THEN 1 ELSE 0) + (IF hist.release # OK THEN 1 ELSE 0)
        + (IF hist.closeFail THEN 1 ELSE 0)

FirstError ==
    IF hist.final # OK THEN crypto_errno(hist.final)
    ELSE IF hist.release # OK THEN crypto_errno(hist.release)
    ELSE IF hist.closeFail THEN "EIO"
    ELSE NoError

LastError ==
    IF hist.closeFail THEN "EIO"
    ELSE IF hist.release # OK THEN crypto_errno(hist.release)
    ELSE IF hist.final # OK THEN crypto_errno(hist.final)
    ELSE NoError

CloseBestEffort ==
    fp.live = "closed" =>
        /\ calls["cipher_final"] = (IF fp.is_write THEN 1 ELSE 0)
        /\ calls["cipher_release"] = 1
        /\ calls["hclose"] = 1
        /\ fp.ctx.st = "released"
        /\ rawfp.st = "closed"
        /\ (ret = 0) <=> (StagesFailed = 0)
        /\ ret # 0 => (ret = -1 /\ errno \notin {NoError, Indeterminate})

CloseBestEffortWitness ==
    /\ fp.live = "closed"
    /\ hist.final # OK
    /\ hist.release = OK
    /\ ~hist.closeFail
    /\ calls["cipher_release"] = 1
    /\ calls["hclose"] = 1
    /\ ret = -1

SeekStep == hist'.op = "seek" /\ hist'.ops = hist.ops + 1

\* C7 (Spec): every cip_seek call, on a read or a write session, returns -1
\* with errno ESPIPE, makes no call on the underlying stream or the engine,
\* and leaves the handle, the underlying stream and the target as they were.
SeekRejected ==
    [][SeekStep =>
          /\ ret' = -1
          /\ errno' = "ESPIPE"
          /\ fp' = fp
          /\ rawfp' = rawfp
          /\ disk' = disk
          /\ calls' = calls]_vars

SeekRejectedWitness ==
    /\ hist.op = "seek"
    /\ hist.writes >= 1
    /\ fp.is_write
    /\ fp.live = "open"
    /\ fp.ctx.pos > 0
    /\ ret = -1
    /\ errno = "ESPIPE"

\* C8 (Spec): with no secret in the environment, hopen_cip returns NULL
\* with errno EPERM for every mode, and has made no call at all: the
\* underlying stream was not opened, read, written or closed, no IV was
\* generated and no key derived.
MissingSecret ==
    (HTS_CIP_KEY = NULL /\ hist.op # "none") =>
        /\ ret = 0
        /\ errno = "EPERM"
        /\ fp = NoFp
        /\ rawfp = NoRaw
        /\ calls = NoCalls
        /\ disk \in InitDisks

MissingSecretWitness ==
    /\ HTS_CIP_KEY = NULL
    /\ hist.op = "open"
    /\ hist.mode = "w"
    /\ Len(disk) > 0
    /\ ret = 0
    /\ errno = "EPERM"

\* C9 (Spec): hopen_cip for reading a target of fewer than 16 bytes, when
\* the secret is set and hfile_init, hopen and the header hread do not fail,
\* returns NULL with errno EDOM, derives no key and initialises no engine,
\* and has closed the underlying stream.
TruncatedHeader ==
    (/\ hist.op = "open"
     /\ hist.mode = "r"
     /\ HTS_CIP_KEY # NULL
     /\ hist.fault \notin {"hfile_init", "hopen", "hread"}
     /\ Len(disk) < IVLen)
    => /\ ret = 0
       /\ errno = "EDOM"
       /\ fp.live = "none"
       /\ ~fp.alloc
       /\ calls["PBKDF2"] = 0
       /\ calls["cipher_init"] = 0
       /\ fp.ctx.st = "none"
       /\ rawfp.st = "closed"
       /\ calls["hclose_abruptly"] + calls["hclose"] = 1

TruncatedHeaderWitness ==
    /\ hist.op = "open"
    /\ hist.mode = "r"
    /\ HTS_CIP_KEY # NULL
    /\ Len(disk) = IVLen - 1
    /\ calls["hread"] = 1
    /\ ret = 0
    /\ errno = "EDOM"

\* The steps of hopen_cip that can fail once the underlying stream is open.
AfterOpenFailures ==
    {"hread", "short", "gen_random", "hwrite", "accmode", "PBKDF2",
     "cipher_init"}

\* errno as the failing step set it
TriggerErrno ==
    CASE hist.fail \in {"hread", "hwrite"} -> "EIO"
      [] hist.fail = "short" -> "EDOM"
      [] hist.fail = "accmode" -> "EINVAL"
      [] hist.fail \in {"gen_random", "PBKDF2", "cipher_init"} ->
            crypto_errno(hist.status)
      [] OTHER -> NoError

Ctx0 == [fp.ctx EXCEPT !.pos = 0]

\* C11 (Spec): chunking transparency.  However the caller's data was split
\* into cip_write calls, and each call into buffer-sized chunks, a write
\* session whose calls all succeeded has handed the underlying stream the
\* IV followed by the transform of the whole data in one piece from
\* keystream position 0; however a read session's reads were split, the
\* bytes they returned are the transform in one piece of the bytes consumed
\* from the underlying stream; so byte i always meets keystream position i.
ChunkingTransparent ==
    (Session /\ hist.clean) =>
        /\ fp.ctx.pos = Len(hist.plain) + Len(hist.got)
        /\ fp.is_write =>
              rawfp.out = hist.iv \o CtrTransform(Ctx0, hist.plain)
        /\ ~fp.is_write =>
              /\ rawfp.pos = IVLen + Len(hist.got)
              /\ hist.got = CtrTransform(Ctx0,
                                SubSeq(disk, IVLen + 1, IVLen + Len(hist.got)))

ChunkingTransparentWitness ==
    /\ Session
    /\ hist.clean
    /\ fp.is_write
    /\ hist.writes = 2
    /\ hist.req = 1
    /\ Len(hist.plain) = bufsize + 2
    /\ rawfp.out = hist.iv \o CtrTransform(Ctx0, hist.plain)

\* The calls made with a file name in this state: the name given and the
\* name passed on to hopen or hisremote.
NamedCalls ==
    (IF hist.op # "none" /\ calls["hopen"] > 0
     THEN {[filename |-> hist.filename, target |-> rawfp.name]} ELSE {})
    \cup (IF remote.called
          THEN {[filename |-> remote.filename, target |-> remote.target]}
          ELSE {})

\* the three prefixed forms of a path
Forms(q) == {CipLocalhost \o q, CipEmptyAuthority \o q, CipBare \o q}

\* the path itself begins like an authority
StartsAuthority(q) ==
    \/ HasPrefix(q, Drop(CipLocalhost, 4), 12)
    \/ HasPrefix(q, Drop(CipEmptyAuthority, 4), 3)

\* C12 as claimed (SpecNames): for every path, whichever of the three
\* prefixed forms hopen_cip or cip_isremote is given, the name passed on is
\* the one that each of the three forms is stripped to.
PrefixEquivalence ==
    \A c \in NamedCalls : \A q \in Paths :
        c.filename \in Forms(q) =>
            \A g \in Forms(q) : c.target = strip_cip_scheme(g)

\* C12 as amended (SpecNames): the localhost form and the empty-authority
\* form of a path are both passed on as "/" followed by the path; the bare
\* form is passed on as the path itself (when the path does not begin like
\* an authority).
PrefixStripped ==
    \A c \in NamedCalls : \A q \in Paths :
        /\ c.filename \in {CipLocalhost \o q, CipEmptyAuthority \o q} =>
              c.target = <<"/">> \o q
        /\ (c.filename = CipBare \o q /\ ~StartsAuthority(q)) =>
              c.target = q

PrefixStrippedWitness ==
    /\ hist.op = "open"
    /\ calls["hopen"] = 1
    /\ hist.filename = CipEmptyAuthority \o <<"a">>
    /\ rawfp.name = <<"/", "a">>
    /\ rawfp.name # strip_cip_scheme(CipBare \o <<"a">>)

HeaderIndependent ==
    [][/\ (hist'.op = "open" /\ fp'.live = "open" /\ fp'.is_write) =>
            /\ hist'.iv \in RandomOutputs
            /\ rawfp'.out = hist'.iv
            /\ calls'["gen_random"] = 1
            /\ calls'["cipher_update"] = 0
       /\ (fp.live = "open" /\ fp.is_write) =>
            /\ hist'.iv = hist.iv
            /\ Take(rawfp'.out, IVLen) = hist.iv
       /\ (/\ fp.live = "open" /\ fp.is_write /\ fp'.live = "closed"
           /\ ret' = 0 /\ disk = <<>>) =>
            Take(disk', IVLen) = hist.iv]_vars

HeaderIndependentWitness ==
    /\ fp.live = "closed"
    /\ fp.is_write
    /\ ret = 0
    /\ hist.writes = 2
    /\ Len(hist.plain) > bufsize
    /\ Len(disk) = IVLen + Len(hist.plain)
    /\ Take(disk, IVLen) = hist.iv

\* a step that is a call of cip_read on an open read session whose scratch
\* buffer was allocated
ReadStep ==
    /\ hist'.op = "read"
    /\ hist'.reads = hist.reads + 1
    /\ fp.live = "open"
    /\ ~fp.is_write
    /\ fp.buffer = "alloc"

\* bytes of the underlying stream not yet consumed
Remaining == Len(disk) - rawfp.pos

CeilDiv(a, b) == (a + b - 1) \div b

\* C15 (Spec): read result.  A cip_read(n) on a read session with R bytes
\* remaining, in which no call fails, returns min(n, R), consumes exactly
\* that many bytes of the underlying stream, returns their transform from
\* the engine's position, and asks the stream for one buffer-sized chunk at
\* a time: ceil(n / bufsize) hreads when the stream holds n bytes, and
\* otherwise one hread more than the chunks the R bytes fill, the last
\* returning 0; at the end of the stream it returns 0.
ReadResult ==
    [][(ReadStep /\ (hist'.lfault.kind = "none" \/ ret' >= 0)) =>
          LET n == hist'.req
              k == Min(n, Remaining)
          IN /\ ret' = k
             /\ rawfp'.pos = rawfp.pos + k
             /\ fp'.ctx.pos = fp.ctx.pos + k
             /\ hist'.got = hist.got \o
                    CtrTransform(fp.ctx,
                                 SubSeq(disk, rawfp.pos + 1, rawfp.pos + k))
             /\ calls'["hread"] - calls["hread"] =
                    (IF k < n THEN CeilDiv(k, bufsize) + 1
                     ELSE CeilDiv(n, bufsize))
             /\ calls'["cipher_update"] - calls["cipher_update"] =
                    CeilDiv(k, bufsize)
             /\ fp'.live = "open"
             /\ disk' = disk]_vars

\* a read of more than the stream holds, the stream holding more than a
\* buffer, followed by a read at the end of the stream
ReadResultWitness ==
    /\ fp.live = "open"
    /\ ~fp.is_write
    /\ hist.clean
    /\ hist.reads = 2
    /\ hist.op = "read"
    /\ hist.req > bufsize
    /\ Len(hist.got) > bufsize
    /\ Len(hist.got) < hist.req
    /\ rawfp.pos = Len(disk)
    /\ ret = 0

\* the fault injected into the call of this step strikes: the loop gets as
\* far as the call it is injected into
ReadFaultStrikes ==
    LET f == hist'.lfault
    IN \/ /\ f.kind = "hread"
          /\ (f.at = 1 \/ Remaining > (f.at - 2) * bufsize)
       \/ /\ f.kind = "cipher_update"
          /\ Remaining > (f.at - 1) * bufsize

\* C16 (Spec): read failure.  When the hread or the cipher_update of some
\* iteration of a cip_read call fails, the call returns -1 with the errno
\* the failing call set, whatever the earlier iterations produced; it has
\* made no hread after the failing iteration's, and no cipher_update after
\* the failure; the stream and the engine stand where the iterations before
\* the failure left them (the stream also past the chunk whose update
\* failed).
ReadFailure ==
    [][(ReadStep /\ ReadFaultStrikes) =>
          LET f == hist'.lfault
              before == Min((f.at - 1) * bufsize, Remaining)
              chunk == Min(Min(bufsize, hist'.req - before),
                           Remaining - before)
          IN /\ ret' = -1
             /\ errno' = (IF f.kind = "hread" THEN "EIO"
                          ELSE crypto_errno(f.status))
             /\ calls'["hread"] - calls["hread"] = f.at
             /\ calls'["cipher_update"] - calls["cipher_update"] =
                    (IF f.kind = "hread" THEN f.at - 1 ELSE f.at)
             /\ fp'.ctx.pos = fp.ctx.pos + before
             /\ rawfp'.pos = rawfp.pos + before +
                    (IF f.kind = "hread" THEN 0 ELSE chunk)
             /\ hist'.got = hist.got
             /\ fp'.live = "open"]_vars

\* the hread of the second iteration fails after the first iteration has
\* produced a buffer of bytes
ReadFailureWitness ==
    /\ hist.op = "read"
    /\ hist.reads = 1
    /\ ~fp.is_write
    /\ hist.lfault.kind = "hread"
    /\ hist.lfault.at = 2
    /\ fp.ctx.pos = bufsize
    /\ calls["hread"] = 3
    /\ ret = -1
    /\ errno = "EIO"

\* a step that is a call of cip_write on an open write session whose
\* scratch buffer was allocated
WriteStep ==
    /\ hist'.op = "write"
    /\ hist'.writes = hist.writes + 1
    /\ fp.live = "open"
    /\ fp.is_write
    /\ fp.buffer = "alloc"

\* calls of a function made by the step
Made(name) == calls'[name] - calls[name]

\* C17 (Spec): short write is fatal, no retry.  When the hwrite of some
\* iteration of a cip_write call fails, having accepted fewer bytes than the
\* chunk, the call returns -1; the stream holds the earlier chunks and what
\* it accepted of the failing one, and nothing after; no cipher_update and
\* no hwrite follow the failing hwrite.  Likewise after a failing
\* cipher_update.  And no call of the backend repeats a call that failed:
\* a failing cip_read makes no hread after the failing iteration's,
\* hopen_cip makes each of its calls at most once, and cip_close makes each
\* stage's call once.
NoRetry ==
    [][/\ (WriteStep /\ hist'.lfault.kind # "none") =>
            LET f == hist'.lfault
                n == hist'.req
                before == (f.at - 1) * bufsize
                chunk == Min(bufsize, n - before)
                taken == IF f.kind = "hwrite" THEN Min(f.acc, chunk - 1)
                         ELSE 0
            IN /\ ret' = -1
               /\ errno' = (IF f.kind = "hwrite" THEN "EIO"
                            ELSE crypto_errno(f.status))
               /\ Made("cipher_update") = f.at
               /\ Made("hwrite") =
                      (IF f.kind = "hwrite" THEN f.at ELSE f.at - 1)
               /\ Len(rawfp'.out) = Len(rawfp.out) + before + taken
               /\ Take(rawfp'.out, Len(rawfp.out)) = rawfp.out
               /\ fp'.live = "open"
       /\ (ReadStep /\ ReadFaultStrikes) =>
            Made("hread") = hist'.lfault.at
       /\ (hist.op = "none" /\ hist'.op = "open") =>
            \A c \in CallNames : calls'[c] <= 1
       /\ (fp.live = "open" /\ hist'.op = "close") =>
            /\ Made("cipher_final") = (IF fp.is_write THEN 1 ELSE 0)
            /\ Made("cipher_release") = 1
            /\ Made("hclose") = 1
            /\ Made("hwrite") = 0]_vars

\* the stream takes 15 bytes of the first 16-byte chunk of a 17-byte write
NoRetryWitness ==
    /\ hist.op = "write"
    /\ hist.writes = 1
    /\ fp.is_write
    /\ hist.req = bufsize + 1
    /\ hist.lfault.kind = "hwrite"
    /\ hist.lfault.at = 1
    /\ Len(rawfp.out) = IVLen + bufsize - 1
    /\ calls["hwrite"] = 2
    /\ calls["cipher_update"] = 1
    /\ ret = -1

\* C18 (Spec): finalize discipline.  cipher_final is not called while the
\* handle is open nor by a hopen_cip that fails; once cip_close has returned
\* it has been called exactly once on a write session and never on a read
\* session; when it was called the engine was initialised and not yet
\* released, the underlying stream was still open, and the engine has
\* transformed nothing since.
FinalizeDiscipline ==
    /\ fp.live # "closed" => calls["cipher_final"] = 0
    /\ fp.live = "closed" =>
          /\ calls["cipher_final"] = (IF fp.is_write THEN 1 ELSE 0)
          /\ fp.ctx.st = "released"
          /\ rawfp.st = "closed"
    /\ (fp.live = "closed" /\ fp.is_write) =>
          /\ fp.ctx.fin.st = "init"
          /\ fp.ctx.fin.raw = "open"
          /\ fp.ctx.fin.pos = fp.ctx.pos
    /\ (fp.live = "closed" /\ ~fp.is_write) => fp.ctx.fin = NoFin

FinalizeDisciplineWitness ==
    /\ fp.live = "closed"
    /\ fp.is_write
    /\ hist.writes = 2
    /\ calls["cipher_update"] >= 2
    /\ calls["cipher_final"] = 1
    /\ fp.ctx.fin.pos = fp.ctx.pos
    /\ fp.ctx.pos > bufsize
    /\ hist.final # OK

\* a step that is a call of cip_read or cip_write on an open handle
IoStep ==
    /\ fp.live = "open"
    /\ hist'.op \in {"read", "write"}
    /\ hist'.ops = hist.ops + 1

\* C19 as claimed (Spec): absorbing error state.  Once a cip_read or
\* cip_write on a handle has failed, every later cip_read or cip_write on it
\* is rejected: it returns -1 and advances neither the engine nor the
\* underlying stream.
AbsorbingError ==
    [][(hist.failed /\ IoStep) =>
          /\ ret' = -1
          /\ fp'.ctx.pos = fp.ctx.pos
          /\ rawfp'.pos = rawfp.pos
          /\ rawfp'.out = rawfp.out]_vars

\* C19 as amended (Spec): no error state is kept.  A cip_read or cip_write
\* that fails leaves the handle open; a later cip_read or cip_write in which
\* no call fails is carried out as on a handle that never failed, from where
\* the failed call left the engine and the stream: the read returns
\* min(n, R) bytes and consumes them, the write returns n and hands n bytes
\* to the stream; and a cip_close whose stages succeed returns 0.
ErrorNotAbsorbing ==
    [][/\ (IoStep /\ fp.buffer = "alloc" /\ ret' = -1) => fp'.live = "open"
       /\ (hist.failed /\ ReadStep /\ hist'.lfault.kind = "none") =>
            /\ ret' = Min(hist'.req, Remaining)
            /\ rawfp'.pos = rawfp.pos + ret'
            /\ fp'.ctx.pos = fp.ctx.pos + ret'
       /\ (hist.failed /\ WriteStep /\ hist'.lfault.kind = "none") =>
            /\ ret' = hist'.req
            /\ Len(rawfp'.out) = Len(rawfp.out) + ret'
            /\ fp'.ctx.pos = fp.ctx.pos + ret'
       /\ (/\ hist.failed /\ fp.live = "open" /\ hist'.op = "close"
           /\ hist'.final = OK /\ hist'.release = OK /\ ~hist'.closeFail) =>
            /\ ret' = 0
            /\ fp'.live = "closed"]_vars

\* a write that succeeds after a write of which the stream took only a part
ErrorNotAbsorbingWitness ==
    /\ fp.live = "open"
    /\ fp.is_write
    /\ hist.failed
    /\ hist.writes = 2
    /\ hist.op = "write"
    /\ hist.lfault.kind = "none"
    /\ ret = hist.req
    /\ fp.ctx.pos > Len(rawfp.out) - IVLen

\* C20 as claimed (Spec): resource ownership.  A handle returned by
\* hopen_cip owns an allocated scratch buffer whose size is a multiple of the
\* cipher block size, an initialised engine and an open underlying stream;
\* once cip_close has returned, whatever it returned, the buffer has been
\* freed once, the engine released once and the stream closed once.
ResourceOwnership ==
    /\ fp.live = "open" =>
          /\ fp.buffer = "alloc"
          /\ fp.bufsize > 0
          /\ fp.bufsize % BLOCKSIZE = 0
          /\ fp.ctx.st = "init"
          /\ rawfp.st = "open"
    /\ fp.live = "closed" =>
          /\ fp.buffer = "freed"
          /\ calls["free"] = 1
          /\ fp.ctx.st = "released"
          /\ calls["cipher_release"] = 1
          /\ rawfp.st = "closed"
          /\ calls["hclose"] = 1

\* the scratch buffer still allocated after a cip_close that returned 0
LeakedBuffer ==
    /\ fp.live = "closed"
    /\ ret = 0
    /\ hist.clean
    /\ fp.buffer = "alloc"
    /\ calls["free"] = 0
    /\ fp.ctx.st = "released"
    /\ rawfp.st = "closed"

----------------------------------------------------------------------------
(* The memory-mapped backend *)

\* the step is a call of the given kind on the mapped handle
MmapStep(op) ==
    /\ mmap.fp.live = "open"
    /\ mmap'.hist.ops = mmap.hist.ops + 1
    /\ mmap'.hist.op = op

\* the call of the step returned to its caller
MmapReturned == mmap'.fp.live = "open"

\* min(n, L - pos) for the request of the step
MmapTransfer == Min(mmap'.hist.nbytes, mmap.fp.length - mmap.fp.pos)

\* where a seek of the step starts from, and where it asks to go
MmapOrigin ==
    CASE mmap'.hist.whence = "SEEK_SET" -> 0
      [] mmap'.hist.whence = "SEEK_CUR" -> mmap.fp.pos
      [] OTHER -> mmap.fp.length
MmapTarget == MmapOrigin + mmap'.hist.offset
MmapSeekValid ==
    /\ mmap'.hist.whence \in {"SEEK_SET", "SEEK_CUR", "SEEK_END"}
    /\ 0 <= MmapTarget
    /\ MmapTarget <= mmap.fp.length

\* C21: for a mapping of length L the position stays within 0 .. L through
\* every read, write and seek; a read or write of n bytes transfers exactly
\* min(n, L - pos) bytes starting at pos, advances pos by that amount and
\* leaves every byte at or beyond L alone; a seek succeeds exactly when
\* whence is SET, CUR or END and origin + offset lies in 0 .. L, and then
\* returns the new position, and otherwise it returns -1 with EINVAL and
\* leaves pos unchanged.
PositionBound ==
    [][/\ 0 <= mmap'.fp.pos
       /\ mmap'.fp.pos <= mmap'.fp.length
       /\ mmap'.fp.live # "none" => Len(mmap'.fp.buffer) >= mmap'.fp.length
       /\ mmap.fp.live # "none" => mmap'.fp.length = mmap.fp.length
       /\ MmapStep("read") =>
            /\ MmapReturned
            /\ mmap'.ret = MmapTransfer
            /\ mmap'.fp.pos = mmap.fp.pos + MmapTransfer
            /\ mmap'.hist.out = SubSeq(mmap.fp.buffer, mmap.fp.pos + 1,
                                       mmap.fp.pos + MmapTransfer)
            /\ mmap'.fp.buffer = mmap.fp.buffer
       /\ MmapStep("write") =>
            /\ MmapReturned
            /\ mmap'.ret = MmapTransfer
            /\ mmap'.fp.pos = mmap.fp.pos + MmapTransfer
            /\ mmap'.fp.buffer =
                 Take(mmap.fp.buffer, mmap.fp.pos)
                   \o Take(mmap'.hist.data, MmapTransfer)
                   \o Drop(mmap.fp.buffer, mmap.fp.pos + MmapTransfer)
            /\ Drop(mmap'.fp.buffer, mmap.fp.length)
                 = Drop(mmap.fp.buffer, mmap.fp.length)
       /\ MmapStep("seek") =>
            IF MmapSeekValid
            THEN /\ MmapReturned
                 /\ mmap'.ret = MmapTarget
                 /\ mmap'.fp.pos = MmapTarget
            ELSE /\ mmap'.fp.pos = mmap.fp.pos
                 /\ MmapReturned => mmap'.ret = -1 /\ mmap'.errno = "EINVAL"
      ]_vars

\* C21 witness: a read asking for SIZE_MAX bytes from a position inside the
\* file was cut to the bytes left and took the position to the length.
PositionBoundWitness ==
    /\ mmap.fp.live = "open"
    /\ mmap.hist.op = "read"
    /\ mmap.hist.nbytes = SIZE_MAX
    /\ mmap.ret > 0
    /\ mmap.ret < mmap.fp.length
    /\ mmap.fp.pos = mmap.fp.length

----------------------------------------------------------------------------
(* The iRODS backend *)

\* the step is a call of hopen_irods
IrodsOpenStep == irods'.hist.opens = irods.hist.opens + 1

\* the step ran irods_init
IrodsInitRan == irods'.inits = irods.inits + 1

\* irods_init ran in the step and its environment lookup, its connect or
\* its login failed
IrodsInitFailed ==
    /\ IrodsOpenStep
    /\ irods.conn = NULL
    /\ \/ irods'.hist.stage \in InitStages \ {"clientLogin"}
       \/ /\ irods'.hist.stage = "clientLogin"
          /\ irods'.env # PUBLIC_USER_NAME

\* irods.conn is NULL, or a connection that is connected and, for a user
\* other than the public one, logged in
IrodsConnValid(g) ==
    \/ g.conn = NULL
    \/ /\ g.conn \in DOMAIN g.server
       /\ g.server[g.conn].state = "connected"
       /\ g.env # PUBLIC_USER_NAME => g.server[g.conn].login

\* every connection made other than irods.conn has been disconnected
IrodsNoneLeft(g) ==
    \A c \in DOMAIN g.server :
        c = g.conn \/ g.server[c].state = "disconnected"

\* C22: the shared connection is initialised only inside an open that finds
\* the pointer NULL, so not before the first use and not again while the
\* pointer is set; in every state the pointer is NULL or a connection that
\* completed connect (and login, for a non-public user); an initialisation
\* whose environment lookup, connect or login fails leaves no connection
\* open and the pointer NULL, makes that open return no handle with a
\* non-zero error code, and the next open runs the initialisation again.
ConnectionLifecycle ==
    [][/\ IrodsConnValid(irods')
       /\ IrodsNoneLeft(irods')
       /\ IrodsInitRan <=> (IrodsOpenStep /\ irods.conn = NULL)
       /\ irods'.inits \in {irods.inits, irods.inits + 1}
       /\ (IrodsOpenStep /\ irods.conn # NULL) => irods'.conn = irods.conn
       /\ (IrodsOpenStep /\ irods.conn = NULL /\ ~IrodsInitFailed) =>
            /\ irods'.conn # NULL
            /\ irods'.atexits = irods.atexits + 1
       /\ IrodsInitFailed =>
            /\ irods'.conn = NULL
            /\ irods'.ret = NULL
            /\ irods'.errno # 0
            /\ irods'.descriptors = irods.descriptors
            /\ irods'.atexits = irods.atexits
      ]_vars

\* C22 witness: an initialisation failed at login and its connection was
\* disconnected, and the next open initialised again and returned a handle
\* on a second connection.
ConnectionLifecycleWitness ==
    /\ irods.hist.op = "open"
    /\ irods.inits = 2
    /\ Len(irods.server) = 2
    /\ irods.server[1].state = "disconnected"
    /\ irods.conn = 2
    /\ irods.env # PUBLIC_USER_NAME
    /\ irods.ret # NULL

\* C23: an open whose access mode is read-only reaches the object store as
\* a GET operation, an open with any other access mode as a PUT operation.
OperationByMode ==
    irods.args.oprType # "none" =>
        irods.args.oprType = IF hfile_accmode(irods.hist.mode) = "O_RDONLY"
                             THEN "GET_OPR" ELSE "PUT_OPR"

\* C23 witness: an open for reading returned a handle after reaching the
\* object store as a PUT operation.
ReadIssuedAsPut ==
    /\ irods.hist.op = "open"
    /\ irods.hist.mode = "r"
    /\ irods.ret # NULL
    /\ irods.args.openFlags = O_RDONLY
    /\ irods.args.oprType = "PUT_OPR"

====
